---------------------------- MODULE Spec2Model ----------------------------
(***************************************************************************)
(* A model of the ECDSA nonce-attack engine (class ECDSAAffineAttack):     *)
(* modular arithmetic, the DER signature decoder, the signature extractor, *)
(* the two key-recovery algorithms, the fixture generator and the block    *)
(* analysis pass.                                                          *)
(*                                                                         *)
(* Scale.  The engine works on arbitrary-precision integers modulo the     *)
(* 256-bit secp256k1 order.  The model keeps every algorithm as written    *)
(* but runs it over a small prime order, and a hex digit has HexBase       *)
(* values instead of 16, so that a byte (two hex digits) has               *)
(* ByteBase = HexBase^2 values and a DER integer of IntLen bytes can hold  *)
(* every residue and some values >= the order, as 32 bytes do for the real *)
(* order.  The DER tags keep their hex spelling: 0x30 is the digits 3,0    *)
(* and 0x02 the digits 0,2.                                                *)
(*                                                                         *)
(* Optional fields of the TypeScript interfaces (x?: T) are sequences of   *)
(* length 0 (absent) or 1 (present).                                       *)
(***************************************************************************)
EXTENDS Integers, Sequences, FiniteSets, TLC

(***************************************************************************)
(* Scale of the model                                                      *)
(***************************************************************************)

\* The group order this.curveOrder: a prime, scaled down from the secp256k1
\* order so that ByteBase < CURVE_ORDER < ByteBase^IntLen.
CURVE_ORDER == 19

\* Values of one hex digit (16 in the source).
HexBase == 4

\* Values of one byte: two hex digits.
ByteBase == HexBase * HexBase

\* Bytes of a DER integer in the canonical encoding (0x20 = 32 in the source).
IntLen == 2

(***************************************************************************)
(* BigInt arithmetic of the host language                                  *)
(***************************************************************************)

Abs(x) == IF x < 0 THEN -x ELSE x

\* BigInt division truncates toward zero.
JsDiv(x, y) ==
    IF (x >= 0) = (y > 0) THEN Abs(x) \div Abs(y) ELSE -(Abs(x) \div Abs(y))

\* The BigInt remainder takes the sign of the dividend.
JsRem(x, y) == x - y * JsDiv(x, y)

\* modulo(a, m): ((a % m) + m) % m
modulo(x, m) == JsRem(JsRem(x, m) + m, m)

RECURSIVE ModInverseLoop(_, _, _, _)
\* The while loop of modInverse; yields oldS when r reaches 0.
\* (each iteration's values are bound before the next one runs)
ModInverseLoop(oldR, r, oldS, s) ==
    IF r = 0 THEN oldS
    ELSE CHOOSE out \in
           UNION {{ModInverseLoop(r, nextR, s, nextS) :
                     nextR \in {oldR - quotient * r},
                     nextS \in {oldS - quotient * s}} :
                  quotient \in {JsDiv(oldR, r)}} : TRUE

\* A modInverse that returns the coefficient as the loop leaves it.
ModInverseNoLift(x, m) == ModInverseLoop(x, m, 1, 0)

\* modInverse(a, m): extended Euclidean algorithm.
modInverse(x, m) ==
    LET oldS == ModInverseLoop(x, m, 1, 0)
    IN  IF oldS < 0 THEN oldS + m ELSE oldS

(***************************************************************************)
(* BigInt <-> decimal string (k.toString() and BigInt(str))                *)
(***************************************************************************)

RECURSIVE DigitsOf(_)
\* The decimal digits of a natural number, most significant first.
DigitsOf(x) == IF x < 10 THEN <<x>> ELSE Append(DigitsOf(x \div 10), x % 10)

\* BigInt.prototype.toString(): a sign flag and the decimal digits.
BigIntToString(x) == [neg |-> x < 0, digits |-> DigitsOf(Abs(x))]

RECURSIVE DigitsValue(_)
DigitsValue(ds) ==
    IF ds = <<>> THEN 0
    ELSE 10 * DigitsValue(SubSeq(ds, 1, Len(ds) - 1)) + ds[Len(ds)]

\* BigInt(str) of a decimal string.
StringToBigInt(str) ==
    IF str.neg THEN -DigitsValue(str.digits) ELSE DigitsValue(str.digits)

(***************************************************************************)
(* hashMessage                                                             *)
(***************************************************************************)

RECURSIVE HashLoop(_, _, _)
\* (each iteration's hash is bound as a value before the next one runs)
HashLoop(message, i, hash) ==
    IF i > Len(message) THEN hash
    ELSE CHOOSE out \in
           {HashLoop(message, j, next) :
              j \in {i + 1},
              next \in {JsRem(hash * 256 + message[i], CURVE_ORDER)}} : TRUE

\* hashMessage(message): the simplified hash, a base-256 fold reduced mod n.
hashMessage(message) == HashLoop(message, 1, 0)

\* new TextEncoder().encode("Affinely related nonces are insecure")
Message1 ==
    << 65, 102, 102, 105, 110, 101, 108, 121, 32, 114, 101, 108, 97, 116,
       101, 100, 32, 110, 111, 110, 99, 101, 115, 32, 97, 114, 101, 32, 105,
       110, 115, 101, 99, 117, 114, 101 >>

\* new TextEncoder().encode("This is a vulnerability demonstration")
Message2 ==
    << 84, 104, 105, 115, 32, 105, 115, 32, 97, 32, 118, 117, 108, 110, 101,
       114, 97, 98, 105, 108, 105, 116, 121, 32, 100, 101, 109, 111, 110, 115,
       116, 114, 97, 116, 105, 111, 110 >>

(***************************************************************************)
(* SignatureData and AttackResult                                          *)
(***************************************************************************)

\* A SignatureData object.  The message bytes themselves are read by no
\* algorithm after hashing and are not kept.
SignatureData(z, r, s, nonce, txHash, fromAddress, scriptType) ==
    [messageHash |-> z, r |-> r, s |-> s, nonce |-> nonce, txHash |-> txHash,
     fromAddress |-> fromAddress, scriptType |-> scriptType]

MsgNeedTwo == "Need at least 2 signatures for attack"
MsgInvalidComponents == "Invalid signature components (zero values detected)"
MsgZeroDenominator ==
    "Denominator is zero - signatures may not have affine nonce relationship"
MsgZeroResult == "Recovered private key is zero - invalid result"

\* An AttackResult with success = false.
AttackFailure(msg) ==
    [success |-> FALSE, recoveredPrivateKey |-> <<>>, signaturesUsed |-> <<>>,
     affineParams |-> <<>>, errorMessage |-> msg]

\* An AttackResult with success = true.
AttackSuccess(key, used, pa, pb) ==
    [success |-> TRUE, recoveredPrivateKey |-> <<key>>, signaturesUsed |-> used,
     affineParams |-> <<[a |-> pa, b |-> pb]>>, errorMessage |-> ""]

(***************************************************************************)
(* KeyRecoveryEngine                                                       *)
(***************************************************************************)

\* signWithNonce(privateKey, message, nonce)
signWithNonce(privateKey, message, nonce) ==
    LET messageHash == hashMessage(message)
        r == modulo(nonce, CURVE_ORDER)
        nonceInv == modInverse(nonce, CURVE_ORDER)
        s == modulo(nonceInv * (messageHash + r * privateKey), CURVE_ORDER)
    IN  SignatureData(messageHash, r, s, <<nonce>>, <<>>, <<>>, "fixture")

\* recoverPrivateKey without the zero-denominator test.
RecoverNoDenominatorCheck(signatures, pa, pb) ==
    IF Len(signatures) < 2 THEN AttackFailure(MsgNeedTwo)
    ELSE
    LET sig1 == signatures[1]
        sig2 == signatures[2]
        numerator == modulo(pa * sig2.s * sig1.messageHash
                              - sig1.s * sig2.messageHash
                              + pb * sig1.s * sig2.s, CURVE_ORDER)
        denominator == modulo(sig2.r * sig1.s - pa * sig1.r * sig2.s, CURVE_ORDER)
        denominatorInv == modInverse(denominator, CURVE_ORDER)
        recoveredPrivateKey == modulo(denominatorInv * numerator, CURVE_ORDER)
    IN  IF sig1.r = 0 \/ sig1.s = 0 \/ sig2.r = 0 \/ sig2.s = 0
        THEN AttackFailure(MsgInvalidComponents)
        ELSE IF recoveredPrivateKey = 0 THEN AttackFailure(MsgZeroResult)
        ELSE AttackSuccess(recoveredPrivateKey, SubSeq(signatures, 1, 2), pa, pb)

\* recoverPrivateKey testing the denominator before the components.
RecoverDenominatorFirst(signatures, pa, pb) ==
    IF Len(signatures) < 2 THEN AttackFailure(MsgNeedTwo)
    ELSE
    LET sig1 == signatures[1]
        sig2 == signatures[2]
        numerator == modulo(pa * sig2.s * sig1.messageHash
                              - sig1.s * sig2.messageHash
                              + pb * sig1.s * sig2.s, CURVE_ORDER)
        denominator == modulo(sig2.r * sig1.s - pa * sig1.r * sig2.s, CURVE_ORDER)
        denominatorInv == modInverse(denominator, CURVE_ORDER)
        recoveredPrivateKey == modulo(denominatorInv * numerator, CURVE_ORDER)
    IN  IF denominator = 0 THEN AttackFailure(MsgZeroDenominator)
        ELSE IF sig1.r = 0 \/ sig1.s = 0 \/ sig2.r = 0 \/ sig2.s = 0
        THEN AttackFailure(MsgInvalidComponents)
        ELSE IF recoveredPrivateKey = 0 THEN AttackFailure(MsgZeroResult)
        ELSE AttackSuccess(recoveredPrivateKey, SubSeq(signatures, 1, 2), pa, pb)

\* recoverPrivateKey(signatures, a, b).  With BigInt components and integer
\* a, b nothing inside the try block throws, so the catch branch is not taken.
recoverPrivateKey(signatures, pa, pb) ==
    IF Len(signatures) < 2 THEN AttackFailure(MsgNeedTwo)
    ELSE
    LET sig1 == signatures[1]
        sig2 == signatures[2]
        z1 == sig1.messageHash
        z2 == sig2.messageHash
        r1 == sig1.r
        r2 == sig2.r
        s1 == sig1.s
        s2 == sig2.s
        numerator == modulo(pa * s2 * z1 - s1 * z2 + pb * s1 * s2, CURVE_ORDER)
        denominator == modulo(r2 * s1 - pa * r1 * s2, CURVE_ORDER)
        denominatorInv == modInverse(denominator, CURVE_ORDER)
        recoveredPrivateKey == modulo(denominatorInv * numerator, CURVE_ORDER)
    IN  IF r1 = 0 \/ s1 = 0 \/ r2 = 0 \/ s2 = 0
        THEN AttackFailure(MsgInvalidComponents)
        ELSE IF denominator = 0 THEN AttackFailure(MsgZeroDenominator)
        ELSE IF recoveredPrivateKey = 0 THEN AttackFailure(MsgZeroResult)
        ELSE AttackSuccess(recoveredPrivateKey, SubSeq(signatures, 1, 2), pa, pb)

\* The two signatures of generateVulnerableSignatures(a, b, privateKey) for
\* the drawn nonce k1.
VulnerableSignatures(pa, pb, privateKey, k1) ==
    LET k2 == modulo(pa * k1 + pb, CURVE_ORDER)
    IN  << signWithNonce(privateKey, Message1, k1),
           signWithNonce(privateKey, Message2, k2) >>


\* A ReusePair that keeps a zero key.
ReusePairKeepZero(sig1, sig2) ==
    LET zDiff == modulo(sig1.messageHash - sig2.messageHash, CURVE_ORDER)
        sDiff == modulo(sig1.s - sig2.s, CURVE_ORDER)
        sDiffInv == modInverse(sDiff, CURVE_ORDER)
        k == modulo(zDiff * sDiffInv, CURVE_ORDER)
        rInv == modInverse(sig1.r, CURVE_ORDER)
        priv == modulo((sig1.s * k - sig1.messageHash) * rInv, CURVE_ORDER)
    IN  IF sDiff # 0 /\ sig1.r # 0 THEN <<priv>> ELSE <<>>

\* A ReusePair that multiplies by s1 - s2 where it must divide by it.
ReusePairNoInverse(sig1, sig2) ==
    LET zDiff == modulo(sig1.messageHash - sig2.messageHash, CURVE_ORDER)
        sDiff == modulo(sig1.s - sig2.s, CURVE_ORDER)
        k == modulo(zDiff * sDiff, CURVE_ORDER)
        rInv == modInverse(sig1.r, CURVE_ORDER)
        priv == modulo((sig1.s * k - sig1.messageHash) * rInv, CURVE_ORDER)
    IN  IF sDiff # 0 /\ sig1.r # 0 /\ priv # 0 THEN <<priv>> ELSE <<>>

\* The contribution of the pair (sig1, sig2) to recoveredKeys: the body of
\* the inner loop of recoverPrivateKeysFromNonceReuse.
ReusePair(sig1, sig2) ==
    LET zDiff == modulo(sig1.messageHash - sig2.messageHash, CURVE_ORDER)
        sDiff == modulo(sig1.s - sig2.s, CURVE_ORDER)
        sDiffInv == modInverse(sDiff, CURVE_ORDER)
        k == modulo(zDiff * sDiffInv, CURVE_ORDER)
        rInv == modInverse(sig1.r, CURVE_ORDER)
        priv == modulo((sig1.s * k - sig1.messageHash) * rInv, CURVE_ORDER)
    IN  IF sDiff # 0 /\ sig1.r # 0 /\ priv # 0 THEN <<priv>> ELSE <<>>

RECURSIVE ReuseLoop(_, _, _, _)
\* The two nested loops over i < j, from the pair (i, j) on.
ReuseLoop(signatures, i, j, recoveredKeys) ==
    IF i > Len(signatures) THEN recoveredKeys
    ELSE IF j > Len(signatures)
         THEN ReuseLoop(signatures, i + 1, i + 2, recoveredKeys)
         ELSE ReuseLoop(signatures, i, j + 1,
                        recoveredKeys \o ReusePair(signatures[i], signatures[j]))

\* recoveredKeys.map(k => k.toString())
KeysToStrings(keys) == [i \in 1..Len(keys) |-> BigIntToString(keys[i])]

\* .map(k => BigInt(k))
StringsToKeys(strs) == [i \in 1..Len(strs) |-> StringToBigInt(strs[i])]

RECURSIVE SetSpread(_, _)
\* [...new Set(xs)]: the distinct elements in order of first occurrence.
SetSpread(xs, seen) ==
    IF xs = <<>> THEN seen
    ELSE SetSpread(Tail(xs),
                   IF \E n \in 1..Len(seen) : seen[n] = Head(xs)
                   THEN seen ELSE Append(seen, Head(xs)))

\* recoverPrivateKeysFromNonceReuse returning the raw list, not deduplicated.
ReuseNoDedup(signatures) == ReuseLoop(signatures, 1, 2, <<>>)

\* recoverPrivateKeysFromNonceReuse(signatures)
recoverPrivateKeysFromNonceReuse(signatures) ==
    LET recoveredKeys == ReuseLoop(signatures, 1, 2, <<>>)
    IN  StringsToKeys(SetSpread(KeysToStrings(recoveredKeys), <<>>))

(***************************************************************************)
(* DERSignatureDecoder                                                     *)
(*                                                                         *)
(* A hex string is a sequence of characters; the characters 0..HexBase-1   *)
(* are the hex digits and any other value is a character that is not a hex *)
(* digit.  A byte array is a sequence of numbers in 0..ByteBase-1, indexed *)
(* from 1 where the source indexes from 0.                                 *)
(***************************************************************************)

\* The value of reading past the end of an array.
Undefined == -1

\* 0x30 as a byte: the hex digits 3, 0.
SEQUENCE_TAG == 3 * HexBase

\* 0x02 as a byte: the hex digits 0, 2.
INTEGER_TAG == 2

\* hexToBytes(hex) for a string of hex digits: one byte per two digits; the
\* array has floor(length / 2) bytes, so a trailing odd digit is dropped.
hexToBytes(hex) ==
    [i \in 1..(Len(hex) \div 2) |-> hex[2 * i - 1] * HexBase + hex[2 * i]]

RECURSIVE BytesLoop(_, _, _)
BytesLoop(bytes, i, result) ==
    IF i > Len(bytes) THEN result
    ELSE BytesLoop(bytes, i + 1, result * ByteBase + bytes[i])

\* bytesToBigInt(bytes): big-endian, result = (result << 8) + byte.
bytesToBigInt(bytes) == BytesLoop(bytes, 1, 0)

\* bytes[offset] with the source's 0-based offset.
ByteAt(bytes, offset) ==
    IF offset >= 0 /\ offset < Len(bytes) THEN bytes[offset + 1] ELSE Undefined

\* bytes.slice(start, end) with 0-based offsets; slice clamps both to the
\* array, and an end that is NaN (from an undefined length) counts as 0.
Slice(bytes, start, end) ==
    LET lo == IF start > Len(bytes) THEN Len(bytes) ELSE start
        hi == IF end > Len(bytes) THEN Len(bytes) ELSE end
    IN  IF hi <= lo THEN <<>> ELSE SubSeq(bytes, lo + 1, hi)

\* A decoder that reads s from where r starts.
ParseDERSameOffset(derHex) ==
    LET bytes == hexToBytes(derHex)
        rLength == ByteAt(bytes, 3)
        r == bytesToBigInt(Slice(bytes, 4, 4 + rLength))
    IN  IF Len(bytes) < 6 \/ bytes[1] # SEQUENCE_TAG THEN <<>>
        ELSE IF bytes[3] # INTEGER_TAG THEN <<>>
        ELSE IF ByteAt(bytes, 4 + rLength) # INTEGER_TAG THEN <<>>
        ELSE IF r = 0 \/ r >= CURVE_ORDER THEN <<>>
        ELSE <<[r |-> r, s |-> r]>>

\* parseDERSignature(derHex): <<>> for null, else <<[r, s]>>.  Nothing in
\* the try block throws on a string of hex digits.
parseDERSignature(derHex) ==
    LET bytes == hexToBytes(derHex)
        \* offset = 2: skip 0x30 and the length byte; the tag of r is bytes[2]
        rLength == ByteAt(bytes, 3)
        rBytes == Slice(bytes, 4, 4 + rLength)
        r == bytesToBigInt(rBytes)
        offset == 4 + rLength
        sLength == ByteAt(bytes, offset + 1)
        sBytes == IF sLength = Undefined THEN <<>>
                  ELSE Slice(bytes, offset + 2, offset + 2 + sLength)
        s == bytesToBigInt(sBytes)
    IN  IF Len(bytes) < 6 \/ bytes[1] # SEQUENCE_TAG THEN <<>>
        ELSE IF bytes[3] # INTEGER_TAG THEN <<>>
        ELSE IF ByteAt(bytes, offset) # INTEGER_TAG THEN <<>>
        ELSE IF r = 0 \/ s = 0 \/ r >= CURVE_ORDER \/ s >= CURVE_ORDER THEN <<>>
        ELSE <<[r |-> r, s |-> s]>>

(***************************************************************************)
(* SignatureExtractor                                                      *)
(*                                                                         *)
(* A transaction is the record                                             *)
(*   [isNull, vin, txid, vrs, unparsable, hash, from]                      *)
(* isNull: the provider delivered null in place of the transaction;        *)
(* vin: optional list of inputs [isNull, scriptSig: optional hex string,   *)
(*      txinwitness: optional list of hex strings], isNull telling that    *)
(*      the entry of the list is null;                                     *)
(* txid: the characters of tx.txid; vrs: optional [r, s], present when     *)
(* tx.v, tx.r and tx.s are all defined, holding BigInt(tx.r), BigInt(tx.s);*)
(* unparsable: tx.r is a string that BigInt() rejects (not a number);      *)
(* hash: optional number, the value of the hex string tx.hash;             *)
(* from: optional address.                                                 *)
(***************************************************************************)

IsHexDigit(c) == c >= 0 /\ c < HexBase

\* The longest tail the pattern /30[0-9a-f]{4,140}/ takes after "30":
\* 140 = 4 * 32 + 12 hex digits in the source.
RegexMaxTail == 4 * IntLen + 12

\* Whether /30[0-9a-f]{4,140}/ matches at position i of hex.
MatchesAt(hex, i) ==
    /\ i + 5 <= Len(hex)
    /\ hex[i] = 3
    /\ hex[i + 1] = 0
    /\ \A d \in 2..5 : IsHexDigit(hex[i + d])

\* hex.match(/30[0-9a-f]{4,140}/gi)[0]: the leftmost match, taking as many
\* hex digits as there are, up to the maximum.  <<>> when nothing matches.
FirstDerMatch(hex) ==
    LET starts == {i \in 1..Len(hex) : MatchesAt(hex, i)}
    IN  IF starts = {} THEN <<>>
        ELSE LET i == CHOOSE x \in starts : \A y \in starts : x <= y
                 tails == {n \in 4..RegexMaxTail :
                             /\ i + 1 + n <= Len(hex)
                             /\ \A d \in 2..(n + 1) : IsHexDigit(hex[i + d])}
                 n == CHOOSE x \in tails : \A y \in tails : x >= y
             IN  <<SubSeq(hex, i, i + 1 + n)>>

\* extractBitcoinSignature(scriptHex, txid): <<>> for null, else <<record>>.
extractBitcoinSignature(scriptHex, txid) ==
    LET derMatches == FirstDerMatch(scriptHex)
    IN  IF derMatches = <<>> THEN <<>>
        ELSE LET signature == parseDERSignature(derMatches[1])
             IN  IF signature = <<>> THEN <<>>
                 ELSE <<SignatureData(hashMessage(txid), signature[1].r,
                                      signature[1].s, <<>>, txid, <<>>,
                                      "bitcoin")>>

\* The candidates of one input in the order the extractor inspects them: the
\* unlocking script when present and non-empty, then the witness items
\* longer than 140 hex characters.
InputCandidates(input) ==
    (IF input.scriptSig # <<>> /\ input.scriptSig[1] # <<>>
     THEN <<input.scriptSig[1]>> ELSE <<>>)
    \o (IF input.txinwitness = <<>> THEN <<>>
        ELSE SelectSeq(input.txinwitness[1], LAMBDA w : Len(w) > RegexMaxTail))

RECURSIVE FirstDecoded(_, _)
\* The first candidate that yields a record, <<>> when none does.
FirstDecoded(candidates, txid) ==
    IF candidates = <<>> THEN <<>>
    ELSE LET sigData == extractBitcoinSignature(Head(candidates), txid)
         IN  IF sigData # <<>> THEN sigData
             ELSE FirstDecoded(Tail(candidates), txid)

RECURSIVE AllCandidates(_)
AllCandidates(vin) ==
    IF vin = <<>> THEN <<>>
    ELSE InputCandidates(Head(vin)) \o AllCandidates(Tail(vin))

\* The account-based branch of extractSignatureFromTransaction.
ExtractEthereum(tx) ==
    IF tx.vrs = <<>> THEN <<>>
    ELSE LET r == tx.vrs[1].r
             s == tx.vrs[1].s
             hash == IF tx.hash = <<>> THEN 0 ELSE tx.hash[1]
         IN  IF r = 0 \/ s = 0 THEN <<>>
             ELSE <<SignatureData(JsRem(hash, CURVE_ORDER), r, s, <<>>,
                                  tx.hash, tx.from, "ethereum")>>

RECURSIVE LiveInputs(_)
\* The inputs the loop over tx.vin reaches before a null entry.
LiveInputs(vin) ==
    IF vin = <<>> \/ Head(vin).isNull THEN <<>>
    ELSE <<Head(vin)>> \o LiveInputs(Tail(vin))

\* The try block of extractSignatureFromTransaction: value is <<>> for null
\* and <<record>> for a record; threw tells that the block was left by an
\* exception.  Reading tx.vin of a null transaction throws, reading
\* input.scriptSig of a null entry of tx.vin throws, and BigInt(tx.r) throws
\* on a string that is not a number.
\* (live and fromScript are bound as values before they are read)
ExtractBody(tx) ==
    IF tx.isNull THEN [threw |-> TRUE, value |-> <<>>]
    ELSE CHOOSE out \in
           UNION {{IF fromScript # <<>>
                   THEN [threw |-> FALSE, value |-> fromScript]
                   ELSE IF tx.vin # <<>> /\ Len(live) < Len(tx.vin[1])
                        THEN [threw |-> TRUE, value |-> <<>>]
                   ELSE IF tx.vrs # <<>> /\ tx.unparsable
                        THEN [threw |-> TRUE, value |-> <<>>]
                   ELSE [threw |-> FALSE, value |-> ExtractEthereum(tx)] :
                     fromScript \in {FirstDecoded(AllCandidates(live), tx.txid)}} :
                  live \in {IF tx.vin = <<>> THEN <<>>
                            ELSE LiveInputs(tx.vin[1])}} : TRUE

\* The function without its catch: an exception reaches the caller.
ExtractUncaught(tx) == ExtractBody(tx)

\* extractSignatureFromTransaction(tx) as its caller sees it: the catch
\* turns an exception into the return value null.
extractSignatureFromTransaction(tx) ==
    CHOOSE out \in
      {[threw |-> FALSE, value |-> IF body.threw THEN <<>> ELSE body.value] :
         body \in {ExtractBody(tx)}} : TRUE

(***************************************************************************)
(* State                                                                   *)
(***************************************************************************)

VARIABLES
    pc,            \* position of the scenario being run
    a, b,          \* the affine parameters of the caller
    givenKey,      \* the optional privateKey argument of the fixture generator
    privateKey,    \* the privateKey the fixture generator returned
    origin,        \* where `signatures' came from: "fixture", "supplied", "none"
    signatures,    \* the SignatureData list handed to a recovery function
    attackResult,  \* the AttackResult of recoverPrivateKey, <<>> before the call
    recoveredKeys, \* the list recoverPrivateKeysFromNonceReuse returned
    encoded,       \* the integers [r, s] a DER input was made from
    variant,       \* how the DER input was made from its encoding
    derHex,        \* the hex string handed to parseDERSignature
    derResult,     \* what parseDERSignature returned: <<>> or <<[r, s]>>
    chainstackUrl, \* whether the engine was constructed with a node URL
    callback,      \* the progressCallback argument: "none", "returns", "throws"
    blockRange,    \* the blockRange argument [startBlock, endBlock]
    maxBlocks,     \* the maxBlocks argument
    currentBlock,  \* the loop variable of the pass
    result,        \* the ChainAnalysisResult under construction
    rValueMap,     \* the r-value index: entries [key, sigs] in insertion order
    addressSet,    \* the distinct source addresses seen
    extracted,     \* the local list `signatures' of the pass
    fetchLog,      \* the heights requested from getBlockData, in order
    settledLog,    \* the loop iterations that ended: [height, kind of outcome,
                   \* transactions delivered]
    progressLog,   \* the calls of progressCallback, in order
    toast,         \* the title of the last toast the configuration panel showed
    cancelRequested, \* whether the caller has asked for the running pass to stop
    passes,        \* two calls of analyzeBlockchainSignatures in flight at once:
                   \* for each, its engine's URL, its arguments and its locals
    inverseCall,   \* a call of modInverse: its arguments a and m, once it
                   \* has returned its result, and whether it threw
    extractCall,   \* a call of the extractor: what it is called on (a
                   \* transaction or a script) and, once it has returned,
                   \* what it returned
    dashboard      \* the page and its attack panel: the panel's affineConfig
                   \* and rawConfig, isAttackRunning, attackProgress, the
                   \* AttackConfig handed to handleAttackStart, recoveryResults

\* The variables of the key-recovery scenarios and of the decoder scenario.
engineVars == <<a, b, givenKey, privateKey, origin, signatures, attackResult,
                recoveredKeys>>
derVars == <<encoded, variant, derHex, derResult>>

\* The variables of the scenarios that run next to the single pass.
sideVars == <<passes, inverseCall, extractCall, dashboard>>

passVars == <<chainstackUrl, callback, blockRange, maxBlocks, currentBlock,
              result, rValueMap, addressSet, extracted, fetchLog, settledLog,
              progressLog, toast, cancelRequested, sideVars>>

vars == <<pc, engineVars, derVars, passVars>>

\* The engine has been constructed and no recovery call was made.
EngineIdle ==
    /\ a = 0
    /\ b = 0
    /\ givenKey = <<>>
    /\ privateKey = 0
    /\ origin = "none"
    /\ signatures = <<>>
    /\ attackResult = <<>>
    /\ recoveredKeys = <<>>

\* No DER input has been decoded.
DerIdle ==
    /\ encoded = [r |-> 0, s |-> 0]
    /\ variant = [kind |-> "none", at |-> 0, byte |-> 0]
    /\ derHex = <<>>
    /\ derResult = <<>>

\* The ChainAnalysisResult a pass starts from.  analysisDuration, a reading
\* of the clock, is not kept.
EmptyResult ==
    [blocksAnalyzed |-> 0, transactionsProcessed |-> 0, signaturesExtracted |-> 0,
     potentialVulnerabilities |-> <<>>, rValueReuseCount |-> 0,
     uniqueAddresses |-> 0, errorCount |-> 0]

\* No call of modInverse is under observation.
NoInverseCall == [a |-> 0, m |-> 0, result |-> <<>>, threw |-> FALSE]

\* The page as it is first rendered: the useState initial values of Index
\* and of AdvancedAttackPanel.
NoDashboard ==
    [affineConfig |-> [a |-> 2, b |-> 1], rawPasted |-> FALSE,
     isAttackRunning |-> FALSE, attackProgress |-> 0, config |-> <<>>,
     recoveryResults |-> <<>>]

\* No call of the extractor is under observation.
NoExtractCall == [kind |-> "none", tx |-> <<>>, script |-> <<>>, result |-> <<>>]

\* The two calls that can be in flight at once.
PassIds == {1, 2}

\* A call that has not been made, on an engine with or without a node URL.
NoPass(url) ==
    [pc |-> "idle", url |-> url, callback |-> "none", blockRange |-> <<0, 0>>,
     maxBlocks |-> 0, currentBlock |-> 0,
     st |-> [result |-> EmptyResult, rValueMap |-> <<>>, addressSet |-> {},
             extracted |-> <<>>],
     calls |-> <<>>, delivered |-> <<>>, overlapped |-> FALSE,
     result |-> EmptyResult]

\* The arguments and locals of the single pass before it is started.
PassLocalsIdle ==
    /\ callback = "none"
    /\ blockRange = <<0, 0>>
    /\ maxBlocks = 0
    /\ currentBlock = 0
    /\ result = EmptyResult
    /\ rValueMap = <<>>
    /\ addressSet = {}
    /\ extracted = <<>>
    /\ fetchLog = <<>>
    /\ settledLog = <<>>
    /\ progressLog = <<>>
    /\ toast = "none"
    /\ cancelRequested = FALSE

\* No pass has been started.
PassNotStarted ==
    /\ PassLocalsIdle
    /\ passes = [p \in PassIds |-> NoPass(TRUE)]
    /\ inverseCall = NoInverseCall
    /\ extractCall = NoExtractCall
    /\ dashboard = NoDashboard

\* The engine was constructed with a node URL and no pass has been started.
PassIdle ==
    /\ chainstackUrl = TRUE
    /\ PassNotStarted

(***************************************************************************)
(* Inputs                                                                  *)
(***************************************************************************)

\* Largest affine parameter a caller passes and largest component or hash of
\* a caller-made signature.
MaxParam == 3
MaxComponent == 3
MaxHash == 1

\* Affine parameters: negative, zero and positive numbers.
Params == (-1)..MaxParam

\* Values generateRandomBigInt(curveOrder) can return: random % max.
RandomValues == 0..(CURVE_ORDER - 1)

\* Components of signatures a caller builds by hand: small values, zero, and
\* the order itself (non-zero, yet zero modulo the order).
Components == 0..MaxComponent \cup {CURVE_ORDER}

CallerSignatures ==
    {SignatureData(z, r, s, <<>>, <<>>, <<>>, "supplied") :
        z \in 0..MaxHash, r \in Components, s \in Components}

\* A fixed third element, to show that only the first two are read.
ThirdSignature == SignatureData(1, 2, 3, <<>>, <<>>, <<>>, "supplied")

CallerLists ==
    {<<>>}
    \cup {<<x>> : x \in CallerSignatures}
    \cup {<<x, y>> : x \in CallerSignatures, y \in CallerSignatures}
    \cup {<<x, y, ThirdSignature>> : x \in CallerSignatures, y \in CallerSignatures}

(***************************************************************************)
(* Affine recovery: generateVulnerableSignatures / recoverPrivateKey       *)
(***************************************************************************)

InitAffine ==
    /\ pc = "idle"
    /\ a \in Params
    /\ b \in Params
    /\ givenKey = <<>>
    /\ privateKey = 0
    /\ origin = "none"
    /\ signatures = <<>>
    /\ attackResult = <<>>
    /\ recoveredKeys = <<>>
    /\ DerIdle
    /\ PassIdle

\* generateVulnerableSignatures(a, b, privateKey?): the key argument may be
\* omitted (or 0n, which is falsy), and then a random key is drawn; k1 is
\* drawn at random.
GenerateVulnerableSignatures ==
    /\ pc = "idle"
    /\ \E key \in {<<>>} \cup {<<x>> : x \in RandomValues},
          drawnKey \in RandomValues, k1 \in RandomValues :
         LET usedKey == IF key = <<>> \/ key = <<0>> THEN drawnKey ELSE key[1]
         IN  /\ (key # <<>> /\ key # <<0>>) => drawnKey = 0
             /\ givenKey' = key
             /\ privateKey' = usedKey
             /\ signatures' = VulnerableSignatures(a, b, usedKey, k1)
    /\ origin' = "fixture"
    /\ pc' = "ready"
    /\ UNCHANGED <<a, b, attackResult, recoveredKeys, derVars, passVars>>

\* A caller hands signatures of its own making to the recovery function.
SupplySignatures ==
    /\ pc = "idle"
    /\ signatures' \in CallerLists
    /\ origin' = "supplied"
    /\ pc' = "ready"
    /\ UNCHANGED <<a, b, givenKey, privateKey, attackResult, recoveredKeys, derVars, passVars>>

\* recoverPrivateKey(signatures, a, b)
RecoverAffine ==
    /\ pc = "ready"
    /\ attackResult' = <<recoverPrivateKey(signatures, a, b)>>
    /\ pc' = "recovered"
    /\ UNCHANGED <<a, b, givenKey, privateKey, origin, signatures, recoveredKeys, derVars, passVars>>

NextAffine == GenerateVulnerableSignatures \/ SupplySignatures \/ RecoverAffine

SpecAffine == InitAffine /\ [][NextAffine]_vars

(***************************************************************************)
(* Arithmetic modulo the order, as the specification states it             *)
(***************************************************************************)

\* reduce(x): the residue of x in [0, n).
Reduce(x) == x % CURVE_ORDER

\* gcd(x, n) = 1, n being prime: x has an inverse modulo n.
Invertible(x) == \E y \in 1..(CURVE_ORDER - 1) : (x * y) % CURVE_ORDER = 1

\* inverse(x): the residue y with x * y = 1 (mod n).
Inverse(x) == CHOOSE y \in 1..(CURVE_ORDER - 1) : (x * y) % CURVE_ORDER = 1

Recovered == pc = "recovered"

\* reduce(r2*s1 - a*r1*s2) of the first two signatures.
AffineDenominator ==
    Reduce(signatures[2].r * signatures[1].s
             - a * signatures[1].r * signatures[2].s)

\* reduce(a*s2*z1 - s1*z2 + b*s1*s2) of the first two signatures.
AffineNumerator ==
    Reduce(a * signatures[2].s * signatures[1].messageHash
             - signatures[1].s * signatures[2].messageHash
             + b * signatures[1].s * signatures[2].s)

SomeComponentZero ==
    \/ signatures[1].r = 0
    \/ signatures[1].s = 0
    \/ signatures[2].r = 0
    \/ signatures[2].s = 0

(***************************************************************************)
(* Claims about affine recovery                                            *)
(***************************************************************************)

\* C1: affine round trip.  A fixture generated with (a, b, priv), priv in
\* [1, n), whose denominator reduce(r2*s1 - a*r1*s2) is invertible, is
\* recovered: recover_from_affine succeeds and returns priv.
C1_AffineRoundTrip ==
    (/\ Recovered
     /\ origin = "fixture"
     /\ privateKey \in 1..(CURVE_ORDER - 1)
     /\ Invertible(AffineDenominator))
    => /\ attackResult[1].success
       /\ attackResult[1].recoveredPrivateKey = <<privateKey>>

\* C3: denominator zero.  With all of r1, s1, r2, s2 non-zero and
\* r2*s1 = a*r1*s2 (mod n), the outcome is a failure with the
\* zero-denominator reason and carries no recovered key.
C3_ZeroDenominatorOutcome ==
    (/\ Recovered
     /\ Len(signatures) >= 2
     /\ ~SomeComponentZero
     /\ Reduce(signatures[2].r * signatures[1].s)
          = Reduce(a * signatures[1].r * signatures[2].s))
    => /\ ~attackResult[1].success
       /\ attackResult[1].errorMessage = MsgZeroDenominator
       /\ attackResult[1].recoveredPrivateKey = <<>>

\* A caller-made pair with non-zero components and a zero denominator has
\* been through recoverPrivateKey.
C3_Witness ==
    /\ Recovered
    /\ origin = "supplied"
    /\ Len(signatures) >= 2
    /\ ~SomeComponentZero
    /\ a # 0
    /\ AffineDenominator = 0

\* The outcome the specification prescribes for the call, case by case in
\* its fixed order.
PrescribedOutcome ==
    IF Len(signatures) < 2 THEN AttackFailure(MsgNeedTwo)
    ELSE IF SomeComponentZero THEN AttackFailure(MsgInvalidComponents)
    ELSE IF AffineDenominator = 0 THEN AttackFailure(MsgZeroDenominator)
    ELSE IF Reduce(Inverse(AffineDenominator) * AffineNumerator) = 0
         THEN AttackFailure(MsgZeroResult)
    ELSE [success |-> TRUE,
          recoveredPrivateKey |->
              <<Reduce(Inverse(AffineDenominator) * AffineNumerator)>>,
          signaturesUsed |-> <<signatures[1], signatures[2]>>,
          affineParams |-> <<[a |-> a, b |-> b]>>,
          errorMessage |-> ""]

\* C4: recover_from_affine classifies every input in one fixed order: fewer
\* than two signatures, then a zero component, then a zero denominator, then
\* a zero result, else success with the key in [1, n), the first two
\* signatures and (a, b); a failure carries no key.
C4_ClassificationOrder ==
    Recovered =>
        /\ attackResult[1] = PrescribedOutcome
        /\ attackResult[1].success =>
               /\ Len(attackResult[1].recoveredPrivateKey) = 1
               /\ attackResult[1].recoveredPrivateKey[1] \in 1..(CURVE_ORDER - 1)
        /\ ~attackResult[1].success => attackResult[1].recoveredPrivateKey = <<>>

\* A pair with a zero component whose denominator is zero as well was
\* classified, and so was a list of three signatures that succeeded.
C4_Witness ==
    /\ Recovered
    /\ Len(signatures) = 2
    /\ SomeComponentZero
    /\ AffineDenominator = 0
    /\ attackResult[1].errorMessage = MsgInvalidComponents

\* C22: callers guard the inverse.  The fixture generator's signing step
\* calls modInverse(nonce, n) for each of the two records it returns; each of
\* these arguments, k1 and k2 = reduce(a*k1 + b), is non-zero modulo n.
C22_SigningNonceNonZero ==
    (origin = "fixture" /\ signatures # <<>>)
    => \A i \in 1..Len(signatures) :
         Reduce(signatures[i].nonce[1]) # 0

\* C26: fixture consistency.  generate_fixture(a, b, priv) returns two
\* records that carry their nonces: k1 in [1, n), k2 = reduce(a*k1 + b),
\* r_i = reduce(k_i) and s_i * k_i = z_i + r_i * priv (mod n) for both; the
\* private key returned is the supplied priv.
C26_FixtureConsistent ==
    (origin = "fixture" /\ signatures # <<>> /\ givenKey # <<>>)
    => LET k1 == signatures[1].nonce[1]
           k2 == signatures[2].nonce[1]
       IN  /\ Len(signatures) = 2
           /\ k1 \in 1..(CURVE_ORDER - 1)
           /\ k2 = Reduce(a * k1 + b)
           /\ \A i \in 1..2 :
                 LET sig == signatures[i]
                 IN  /\ sig.r = Reduce(sig.nonce[1])
                     /\ Reduce(sig.s * sig.nonce[1])
                          = Reduce(sig.messageHash + sig.r * privateKey)
           /\ privateKey = givenKey[1]

(***************************************************************************)
(* Identical-nonce recovery: recoverPrivateKeysFromNonceReuse              *)
(***************************************************************************)

\* Largest number of records in one bucket; largest message hash and
\* largest s of a hand-made bucket record.
MaxBucket == 3
MaxBucketHash == 1
MaxBucketS == 2

\* Messages to sign: the two fixture messages, the empty message (hash 0),
\* two one-byte messages, one of them with hash 0 again, and a two-byte one.
Messages == {Message1, Message2, <<>>, <<1>>, <<CURVE_ORDER>>, <<1, 0>>}

\* Three short messages with three different hashes, for longer lists.
ShortMessages == {<<>>, <<1>>, <<1, 0>>}

\* Components a stored record can carry: non-zero, possibly >= the order.
BucketR == {1, 2, CURVE_ORDER}
BucketS == 1..MaxBucketS \cup {CURVE_ORDER + 1}

\* The specification's concrete scenario: z1 = 10, z2 = 20, r1 = r2 = 5,
\* s1 = 7, s2 = 9.
ScenarioBucket ==
    << SignatureData(10, 5, 7, <<>>, <<>>, <<>>, "ethereum"),
       SignatureData(20, 5, 9, <<>>, <<>>, <<>>, "ethereum") >>

\* Lists of length n over the set S.
ListsOf(S, n) == [1..n -> S]

InitReuse == pc = "idle" /\ EngineIdle /\ DerIdle /\ PassIdle

\* Two or three messages are signed under one key with one and the same
\* nonce, each by signWithNonce.
SignWithSameNonce ==
    /\ pc = "idle"
    /\ \E key \in RandomValues, k \in RandomValues, n \in 2..MaxBucket :
         \E msgs \in ListsOf(IF n = 2 THEN Messages ELSE ShortMessages, n) :
            /\ privateKey' = key
            /\ signatures' = [i \in 1..n |-> signWithNonce(key, msgs[i], k)]
    /\ origin' = "reuse"
    /\ pc' = "ready"
    /\ UNCHANGED <<a, b, givenKey, attackResult, recoveredKeys, derVars, passVars>>

\* A bucket of the r-value index: two or more stored records with one r.
SupplyBucket ==
    /\ pc = "idle"
    /\ \/ \E r \in BucketR, n \in 2..MaxBucket :
            \E zs \in ListsOf(0..MaxBucketHash, n), ss \in ListsOf(BucketS, n) :
               signatures' = [i \in 1..n |->
                   SignatureData(zs[i], r, ss[i], <<>>, <<>>, <<>>, "ethereum")]
       \/ signatures' = ScenarioBucket
    /\ origin' = "bucket"
    /\ pc' = "ready"
    /\ UNCHANGED <<a, b, givenKey, privateKey, attackResult, recoveredKeys, derVars, passVars>>

\* recoverPrivateKeysFromNonceReuse(signatures)
RecoverReuse ==
    /\ pc = "ready"
    /\ recoveredKeys' = recoverPrivateKeysFromNonceReuse(signatures)
    /\ pc' = "recovered"
    /\ UNCHANGED <<a, b, givenKey, privateKey, origin, signatures, attackResult, derVars, passVars>>

NextReuse == SignWithSameNonce \/ SupplyBucket \/ RecoverReuse

SpecReuse == InitReuse /\ [][NextReuse]_vars

(***************************************************************************)
(* Claims about identical-nonce recovery                                   *)
(***************************************************************************)

\* The elements of a list.
Range(xs) == {xs[i] : i \in 1..Len(xs)}

\* The candidate key of the pair (i, j) as the specification computes it:
\* reduce((s_i*k - z_i) * inverse(r)), k = reduce((z_i - z_j) * inverse(s_i - s_j)).
PairKey(i, j) ==
    LET si == signatures[i].s
        zi == signatures[i].messageHash
        k == Reduce((zi - signatures[j].messageHash)
                      * Inverse(Reduce(si - signatures[j].s)))
    IN  Reduce((si * k - zi) * Inverse(signatures[i].r))

\* The pair (i, j) can contribute: s_i and s_j differ modulo n, and r has an
\* inverse.
PairUsable(i, j) ==
    /\ Reduce(signatures[i].s - signatures[j].s) # 0
    /\ Invertible(signatures[i].r)

\* C2: nonce-reuse round trip.  Two messages with different hashes, signed
\* with the same nonce k in [1, n) under priv in [1, n): the recovered key
\* set contains priv.
C2_ReuseRoundTrip ==
    (/\ Recovered
     /\ origin = "reuse"
     /\ Len(signatures) = 2
     /\ privateKey \in 1..(CURVE_ORDER - 1)
     /\ signatures[1].nonce[1] \in 1..(CURVE_ORDER - 1)
     /\ signatures[1].messageHash # signatures[2].messageHash)
    => privateKey \in Range(recoveredKeys)

\* Two messages with different hashes were signed with one non-zero nonce
\* under a non-zero key, and recovery has run on the two records.
C2_Witness ==
    /\ Recovered
    /\ origin = "reuse"
    /\ Len(signatures) = 2
    /\ privateKey \in 1..(CURVE_ORDER - 1)
    /\ signatures[1].nonce[1] \in 1..(CURVE_ORDER - 1)
    /\ signatures[1].r = signatures[2].r
    /\ signatures[1].messageHash # signatures[2].messageHash

\* C5: the result of recover_from_reuse over a bucket of m >= 2 records has
\* no duplicate and no zero, every element is in [1, n), and every element is
\* the candidate key of some pair i < j whose s values differ modulo n (a
\* pair with equal s contributes nothing).
C5_ReuseResultSet ==
    (Recovered /\ Len(signatures) >= 2) =>
        /\ \A x, y \in 1..Len(recoveredKeys) :
               recoveredKeys[x] = recoveredKeys[y] => x = y
        /\ \A x \in 1..Len(recoveredKeys) :
               /\ recoveredKeys[x] \in 1..(CURVE_ORDER - 1)
               /\ \E i, j \in 1..Len(signatures) :
                      /\ i < j
                      /\ PairUsable(i, j)
                      /\ recoveredKeys[x] = PairKey(i, j)

\* Recovery ran on a bucket of three records in which two pairs gave the
\* same key and a third pair, with equal s, gave none.
C5_Witness ==
    /\ Recovered
    /\ Len(signatures) = 3
    /\ Len(recoveredKeys) >= 1
    /\ Len(ReuseNoDedup(signatures)) > Len(recoveredKeys)
    /\ \E i, j \in 1..3 : i < j /\ ~PairUsable(i, j)

\* Exactly two records with one r, invertible modulo n, and s1, s2 that
\* differ modulo n.
TwoRecordCase ==
    /\ Recovered
    /\ Len(signatures) = 2
    /\ signatures[1].r = signatures[2].r
    /\ PairUsable(1, 2)

\* C6 as stated: in the two-record case recover_from_reuse returns the single
\* value reduce((s1*k - z1) * inverse(r)).
C6_SingleValue == TwoRecordCase => recoveredKeys = <<PairKey(1, 2)>>

\* C6 amended: in the two-record case the result is that single value when
\* it is non-zero, and empty when it is zero.
\* In the concrete scenario the value is 5 whatever the order is: k = 5 and
\* priv = (7*5 - 10) / 5.
C6_SingleValueOrEmpty ==
    /\ TwoRecordCase =>
           recoveredKeys = IF PairKey(1, 2) = 0 THEN <<>> ELSE <<PairKey(1, 2)>>
    /\ (Recovered /\ signatures = ScenarioBucket) => recoveredKeys = <<5>>

\* The two-record case was run on a bucket whose candidate key is zero, and
\* the result is empty.
C6_Witness ==
    /\ TwoRecordCase
    /\ origin = "bucket"
    /\ PairKey(1, 2) = 0
    /\ recoveredKeys = <<>>

(***************************************************************************)
(* The decoder on canonical encodings and their damaged variants           *)
(***************************************************************************)

RECURSIVE Power(_, _)
Power(x, n) == IF n = 0 THEN 1 ELSE x * Power(x, n - 1)

\* x as len big-endian bytes.
ToBytes(x, len) ==
    [i \in 1..len |-> (x \div Power(ByteBase, len - i)) % ByteBase]

\* The hex string of a byte array: two digits per byte.
ToHex(bytes) ==
    [i \in 1..(2 * Len(bytes)) |->
        IF i % 2 = 1 THEN bytes[(i + 1) \div 2] \div HexBase
        ELSE bytes[i \div 2] % HexBase]

\* The canonical encoding 30 44 02 20 <r> 02 20 <s>: 0x20 is the length of
\* each integer and 0x44 = 2 * 0x20 + 4 the length of the sequence.
DerBytes(r, s) ==
    <<SEQUENCE_TAG, 2 * IntLen + 4, INTEGER_TAG, IntLen>> \o ToBytes(r, IntLen)
    \o <<INTEGER_TAG, IntLen>> \o ToBytes(s, IntLen)

\* Offsets (0-based) of the three tag bytes of the canonical encoding.
TagOffsets == {0, 2, 4 + IntLen}

\* Integers to encode: every residue, zero, the order and its successor, and
\* the largest value IntLen bytes hold.
EncodedValues == 0..(CURVE_ORDER + 1) \cup {Power(ByteBase, IntLen) - 1}

\* The first bytes of a long-form length: the high bit is set (0x80..0xff).
LongFormBytes == (ByteBase \div 2)..(ByteBase - 1)

\* The variants of an encoding: itself, each proper prefix, each
\* replacement of one tag byte by another byte, and the two ways of giving
\* the sequence a long-form length: byte 1 replaced by a long-form byte, or
\* a long-form byte put in front of the length byte.
Variants ==
    {[kind |-> "valid", at |-> 0, byte |-> 0]}
    \cup {[kind |-> "truncated", at |-> n, byte |-> 0] : n \in 0..(2 * IntLen + 5)}
    \cup {[kind |-> "tag", at |-> o, byte |-> x] :
            o \in TagOffsets, x \in 0..(ByteBase - 1)}
    \cup {[kind |-> k, at |-> 1, byte |-> x] :
            k \in {"longform", "longformInserted"}, x \in LongFormBytes}

\* The bytes of variant v of the canonical encoding of (r, s).
VariantBytes(r, s, v) ==
    LET bytes == DerBytes(r, s)
    IN  CASE v.kind = "truncated" -> SubSeq(bytes, 1, v.at)
          [] v.kind \in {"tag", "longform"} -> [bytes EXCEPT ![v.at + 1] = v.byte]
          [] v.kind = "longformInserted" ->
               <<bytes[1], v.byte>> \o SubSeq(bytes, 2, Len(bytes))
          [] OTHER -> bytes

InitDER ==
    /\ pc = "idle"
    /\ EngineIdle
    /\ encoded \in [r : EncodedValues, s : EncodedValues]
    /\ variant = [kind |-> "none", at |-> 0, byte |-> 0]
    /\ derHex = <<>>
    /\ derResult = <<>>
    /\ PassIdle

\* A DER input is made: the canonical encoding of (r, s) or a variant of it.
\* A tag variant changes the tag: it does not write the same byte back.
EncodeSignature ==
    /\ pc = "idle"
    /\ \E v \in Variants :
         /\ v.kind = "tag" => DerBytes(encoded.r, encoded.s)[v.at + 1] # v.byte
         /\ variant' = v
         /\ derHex' = ToHex(VariantBytes(encoded.r, encoded.s, v))
    /\ pc' = "ready"
    /\ UNCHANGED <<engineVars, encoded, derResult, passVars>>

\* parseDERSignature(derHex)
DecodeSignature ==
    /\ pc = "ready"
    /\ derResult' = parseDERSignature(derHex)
    /\ pc' = "decoded"
    /\ UNCHANGED <<engineVars, encoded, variant, derHex, passVars>>

NextDER == EncodeSignature \/ DecodeSignature

SpecDER == InitDER /\ [][NextDER]_vars

\* The encoded integers are legal signature components: 0 < r, s < n.
EncodedInRange ==
    /\ encoded.r \in 1..(CURVE_ORDER - 1)
    /\ encoded.s \in 1..(CURVE_ORDER - 1)

\* C9: DER decode exactness.  Decoding 30 44 02 20 <r> 02 20 <s> for
\* 0 < r, s < n returns exactly (r, s).
C9_DecodeExact ==
    (pc = "decoded" /\ variant.kind = "valid" /\ EncodedInRange)
    => derResult = <<[r |-> encoded.r, s |-> encoded.s]>>

\* A canonical encoding of two different integers, each with a non-zero high
\* byte, was decoded.
C9_Witness ==
    /\ pc = "decoded"
    /\ variant.kind = "valid"
    /\ EncodedInRange
    /\ encoded.r >= ByteBase
    /\ encoded.s >= ByteBase
    /\ encoded.r # encoded.s
    /\ derResult # <<>>

\* C10: DER malformed input.  Every proper prefix of a valid encoding and
\* every variant with a wrong SEQUENCE or INTEGER tag is a decode failure:
\* no (r, s) pair is returned.
C10_MalformedRejected ==
    (pc = "decoded" /\ variant.kind \in {"truncated", "tag"} /\ EncodedInRange)
    => derResult = <<>>

\* C11: long-form sequence length.  A DER input whose byte 1 has the high
\* bit set is a decode failure, whatever bytes follow.
C11_LongFormRejected ==
    (pc = "decoded" /\ variant.kind \in {"longform", "longformInserted"})
    => derResult = <<>>

(***************************************************************************)
(* ChainAnalysisOrchestrator: analyzeBlockchainSignatures                  *)
(***************************************************************************)

Min(x, y) == IF x <= y THEN x ELSE y

\* An end of the range that leaves maxBlocks out.
ActualEndBlockNoClamp(range, maxB) == range[2]

\* const actualEndBlock = Math.min(endBlock, startBlock + maxBlocks - 1)
ActualEndBlock(range, maxB) == Min(range[2], range[1] + maxB - 1)

\* const totalBlocks = actualEndBlock - startBlock + 1
TotalBlocks(range, maxB) == ActualEndBlock(range, maxB) - range[1] + 1

\* An rValueMap update that moves the bucket it appends to to the end.
MapInsertMoveToEnd(map, sigData) ==
    LET rKey == BigIntToString(sigData.r)
        others == SelectSeq(map, LAMBDA e : e.key # rKey)
        same == SelectSeq(map, LAMBDA e : e.key = rKey)
    IN  IF same = <<>> THEN Append(map, [key |-> rKey, sigs |-> <<sigData>>])
        ELSE Append(others, [key |-> rKey, sigs |-> Append(same[1].sigs, sigData)])

\* An rValueMap update that sets the bucket anew on every insert.
MapInsertReplace(map, sigData) ==
    LET rKey == BigIntToString(sigData.r)
        entry == [key |-> rKey, sigs |-> <<sigData>>]
    IN  IF \E i \in 1..Len(map) : map[i].key = rKey
        THEN LET i == CHOOSE x \in 1..Len(map) : map[x].key = rKey
             IN  [map EXCEPT ![i] = entry]
        ELSE Append(map, entry)

\* The rValueMap update: append to the bucket of rKey = sigData.r.toString(),
\* or add a new bucket at the end.
MapInsert(map, sigData) ==
    LET rKey == BigIntToString(sigData.r)
    IN  IF \E i \in 1..Len(map) : map[i].key = rKey
        THEN LET i == CHOOSE x \in 1..Len(map) : map[x].key = rKey
             IN  [map EXCEPT ![i].sigs = Append(@, sigData)]
        ELSE Append(map, [key |-> rKey, sigs |-> <<sigData>>])

\* The locals of a pass that the transaction loop updates.
PassState(res, map, addrs, sigs) ==
    [result |-> res, rValueMap |-> map, addressSet |-> addrs, extracted |-> sigs]

\* The body of the loop over blockData.transactions for one transaction:
\* the locals after it, and whether it was left by an exception of the call
\* of extractSignatureFromTransaction.
\* (the value returned by the call is bound before it is read)
ProcessTransaction(st, tx) ==
    LET counted == [st.result EXCEPT !.transactionsProcessed = @ + 1]
    IN  CHOOSE out \in
          UNION {{IF call.threw \/ sigData = <<>>
                  THEN [st |-> [st EXCEPT !.result = counted],
                        threw |-> call.threw]
                  ELSE [st |-> PassState(
                                  [counted EXCEPT !.signaturesExtracted = @ + 1],
                                  MapInsert(st.rValueMap, sigData[1]),
                                  IF sigData[1].fromAddress # <<>>
                                  THEN st.addressSet
                                         \cup {sigData[1].fromAddress[1]}
                                  ELSE st.addressSet,
                                  Append(st.extracted, sigData[1])),
                        threw |-> FALSE] :
                    sigData \in {call.value}} :
                 call \in {extractSignatureFromTransaction(tx)}} : TRUE

RECURSIVE ProcessTransactions(_, _)
\* for (const tx of blockData.transactions): an exception leaves the loop
\* (each iteration's locals are bound as a value before the next one runs)
ProcessTransactions(st, txs) ==
    IF txs = <<>> THEN [st |-> st, threw |-> FALSE]
    ELSE CHOOSE out \in {IF next.threw THEN next
                         ELSE ProcessTransactions(next.st, Tail(txs)) :
                            next \in {ProcessTransaction(st, Head(txs))}} : TRUE

\* One finding of the collision scan.  The description string is made of
\* rValue and sigList.length, kept here as `reused'.
Finding(entry) ==
    [type |-> "r_value_reuse", rValue |-> StringToBigInt(entry.key),
     signatures |-> entry.sigs,
     recoveredPrivateKeys |-> recoverPrivateKeysFromNonceReuse(entry.sigs),
     severity |-> "CRITICAL", reused |-> Len(entry.sigs)]

RECURSIVE CollisionScanAll(_)
\* A scan that reports every bucket, also those with one record.
CollisionScanAll(map) ==
    IF map = <<>> THEN <<>>
    ELSE <<Finding(Head(map))>> \o CollisionScanAll(Tail(map))

RECURSIVE CollisionScan(_)
\* for (const [rValue, sigList] of rValueMap.entries()) if (sigList.length > 1)
CollisionScan(map) ==
    IF map = <<>> THEN <<>>
    ELSE (IF Len(Head(map).sigs) > 1 THEN <<Finding(Head(map))>> ELSE <<>>)
         \o CollisionScan(Tail(map))

\* The code after the block loop: the result as returned.
FinishPass(st) ==
    LET findings == CollisionScan(st.rValueMap)
    IN  [st.result EXCEPT !.uniqueAddresses = Cardinality(st.addressSet),
                          !.rValueReuseCount = Len(findings),
                          !.potentialVulnerabilities = findings]

\* A failure handler that also counts the block as analyzed.
BlockFailedCountsBlock(st) ==
    [st EXCEPT !.result.errorCount = @ + 1, !.result.blocksAnalyzed = @ + 1]

\* result.errorCount++, as done for a null block before `continue' and in
\* the catch of the loop body.
BlockFailed(st) == [st EXCEPT !.result.errorCount = @ + 1]

\* The body of the block loop once getBlockData has settled with `outcome':
\*   "throws"          the call threw (no node URL configured);
\*   "null"            it returned null (transport or RPC error, no result);
\*   "noTransactions"  it returned a block without a transactions list, and
\*                     iterating it throws;
\*   "block"           it returned a block with the list outcome.txs.
\* cb is the progress callback, done and total its arguments.  Yields the new
\* locals and the calls made to the callback.
\* (the locals after the transaction loop are bound before they are read)
ProcessBlock(st, outcome, cb, done, total) ==
    LET failed == BlockFailed(st)
        analyzed == [st EXCEPT !.result.blocksAnalyzed = @ + 1]
        call == [progress |-> [num |-> done * 100, den |-> total],
                 current |-> done, total |-> total]
    IN  CASE outcome.kind \in {"throws", "null"} ->
               [st |-> failed, calls |-> <<>>]
          [] outcome.kind = "noTransactions" ->
               [st |-> BlockFailed(analyzed), calls |-> <<>>]
          [] OTHER ->
               CHOOSE out \in
                 {CASE consumed.threw ->
                         [st |-> BlockFailed(consumed.st), calls |-> <<>>]
                    [] ~consumed.threw /\ cb = "none" ->
                         [st |-> consumed.st, calls |-> <<>>]
                    [] ~consumed.threw /\ cb = "returns" ->
                         [st |-> consumed.st, calls |-> <<call>>]
                    [] OTHER ->
                         [st |-> BlockFailed(consumed.st), calls |-> <<call>>] :
                    consumed \in {ProcessTransactions(analyzed, outcome.txs)}} :
                 TRUE

(***************************************************************************)
(* What the node delivers                                                  *)
(***************************************************************************)

\* An account-based transaction {v, r, s, hash, from}.
EthTx(r, s, hash, from) ==
    [isNull |-> FALSE, vin |-> <<>>, txid |-> <<>>,
     vrs |-> <<[r |-> r, s |-> s]>>, unparsable |-> FALSE,
     hash |-> <<hash>>, from |-> from]

\* A script-based transaction {txid, vin}.
BtcTx(vin, txid) ==
    [isNull |-> FALSE, vin |-> <<vin>>, txid |-> txid,
     vrs |-> <<>>, unparsable |-> FALSE, hash |-> <<>>, from |-> <<>>]

\* null in place of a transaction.
NullTx ==
    [isNull |-> TRUE, vin |-> <<>>, txid |-> <<>>,
     vrs |-> <<>>, unparsable |-> FALSE, hash |-> <<>>, from |-> <<>>]

\* An unlocking script or witness item holding one signature: the push
\* opcode, the DER encoding of (r, s), the sighash byte 01.
SigScript(r, s) == ToHex(<<2 * IntLen + 7>> \o DerBytes(r, s) \o <<1>>)

\* A script without the pattern 30....
PlainScript == ToHex(<<1, 1, 1, 1>>)

\* new TextEncoder().encode("1"), new TextEncoder().encode("2")
Txid1 == <<49>>
Txid2 == <<50>>

\* Two transactions of one signer with the same r, and others.
TxA1 == EthTx(5, 7, 10, <<1>>)
TxA2 == EthTx(5, 9, 20, <<1>>)
TxB1 == EthTx(6, 3, 4, <<2>>)
TxB2 == EthTx(6, 4, 8, <<>>)
TxC == EthTx(8, 2, 5, <<3>>)
\* Components the account-based branch is handed as they come.
TxZeroR == EthTx(0, 7, 3, <<1>>)
TxZeroS == EthTx(5, 0, 3, <<1>>)
TxLargeR == EthTx(CURVE_ORDER + 5, 7, 6, <<2>>)
TxLargeS == EthTx(6, CURVE_ORDER, 6, <<2>>)
TxNegativeR == EthTx(-5, 7, 6, <<4>>)
\* Script-based transactions.
\* An input {scriptSig: {hex}, txinwitness}, either of them optional, and a
\* null entry of tx.vin.
Input(scriptSig, txinwitness) ==
    [isNull |-> FALSE, scriptSig |-> scriptSig, txinwitness |-> txinwitness]
NullInput == [isNull |-> TRUE, scriptSig |-> <<>>, txinwitness |-> <<>>]

\* A script holding the pattern 30 followed by characters that are not hex
\* digits.
NonHexScript == <<3, 0, HexBase, HexBase + 1, 0, 1, 3, 0, 0, HexBase>>

TxScript == BtcTx(<<Input(<<SigScript(5, 3)>>, <<>>)>>, Txid1)
TxWitness == BtcTx(<<Input(<<PlainScript>>,
                           << <<PlainScript, SigScript(6, 5)>> >>)>>, Txid2)
TxNoSignature == BtcTx(<<Input(<<PlainScript>>, <<>>)>>, Txid1)
\* Malformed transactions: r is not a number; the first input is null; the
\* script is not hex; the input has neither script nor witness; the
\* transaction has none of the fields read.
TxUnparsable == [EthTx(5, 7, 10, <<1>>) EXCEPT !.unparsable = TRUE]
TxNullInput == BtcTx(<<NullInput, Input(<<SigScript(5, 3)>>, <<>>)>>, Txid1)
TxNonHex == BtcTx(<<Input(<<NonHexScript>>, <<>>)>>, Txid2)
TxNoFields == BtcTx(<<Input(<<>>, <<>>)>>, <<>>)
TxEmpty == [NullTx EXCEPT !.isNull = FALSE]
\* Two inputs, each with a signature of its own.
TxTwoSignatures == BtcTx(<<Input(<<SigScript(8, 3)>>, <<>>),
                           Input(<<SigScript(6, 5)>>, <<>>)>>, Txid2)

\* The transaction lists of the blocks the node can deliver.
BlockCatalog ==
    { <<>>,
      <<TxA1, TxB1, TxA2, TxC, TxB2>>,
      <<TxScript, TxZeroR, NullTx, TxZeroS>>,
      <<TxLargeR, TxNegativeR, TxLargeS>>,
      <<TxWitness, TxNoSignature, TxA1>>,
      <<TxUnparsable, TxNullInput, TxNonHex, TxNoFields, TxEmpty, TxC,
        TxTwoSignatures>> }

\* How a call of getBlockData can settle.  Without a node URL it throws;
\* with one it returns null, a block without a transactions list, or a block.
Outcomes(url) ==
    IF ~url THEN {[kind |-> "throws", txs |-> <<>>]}
    ELSE {[kind |-> "null", txs |-> <<>>], [kind |-> "noTransactions", txs |-> <<>>]}
         \cup {[kind |-> "block", txs |-> txs] : txs \in BlockCatalog}

\* Largest block height and largest maxBlocks a caller passes.
MaxEndBlock == 3

(***************************************************************************)
(* The pass as a process: one step per await of getBlockData               *)
(***************************************************************************)

Init ==
    /\ pc = "idle"
    /\ EngineIdle
    /\ DerIdle
    /\ chainstackUrl \in BOOLEAN
    /\ PassNotStarted

\* analyzeBlockchainSignatures(blockRange, maxBlocks, progressCallback) up to
\* its first await; with an empty range it runs to its return.
StartPass(startBlock, endBlock, maxB, cb) ==
    /\ blockRange' = <<startBlock, endBlock>>
    /\ maxBlocks' = maxB
    /\ callback' = cb
    /\ currentBlock' = startBlock
    /\ IF startBlock <= ActualEndBlock(<<startBlock, endBlock>>, maxB)
       THEN /\ fetchLog' = <<startBlock>>
            /\ result' = EmptyResult
            /\ pc' = "fetching"
       ELSE /\ fetchLog' = <<>>
            /\ result' = FinishPass(PassState(EmptyResult, <<>>, {}, <<>>))
            /\ pc' = "done"
    /\ UNCHANGED <<engineVars, derVars, chainstackUrl, rValueMap, addressSet,
                   extracted, settledLog, progressLog, cancelRequested, sideVars>>

\* A caller of the engine calls analyzeBlockchainSignatures.
AnalyzeBlockchainSignatures ==
    /\ pc = "idle"
    /\ \E startBlock \in 1..2, endBlock \in 0..MaxEndBlock,
          maxB \in 0..MaxEndBlock, cb \in {"none", "returns", "throws"} :
         StartPass(startBlock, endBlock, maxB, cb)
    /\ toast' = toast

\* handleStartAnalysis of the configuration panel: it refuses a missing node
\* URL and a range with startBlock >= endBlock, and otherwise hands the
\* configuration on (onAnalysisStart), which starts a pass with a callback
\* that updates the page state.
HandleStartAnalysis ==
    /\ pc = "idle"
    /\ \E startBlock \in 1..2, endBlock \in 0..MaxEndBlock, maxB \in 0..MaxEndBlock :
         IF ~chainstackUrl \/ startBlock >= endBlock
         THEN /\ toast' = IF ~chainstackUrl THEN "Configuration required"
                          ELSE "Invalid block range"
              /\ pc' = "refused"
              /\ UNCHANGED <<engineVars, derVars, chainstackUrl, callback,
                             blockRange, maxBlocks, currentBlock, result,
                             rValueMap, addressSet, extracted, fetchLog,
                             settledLog, progressLog, cancelRequested,
                             sideVars>>
         ELSE /\ toast' = "Analysis Started"
              /\ StartPass(startBlock, endBlock, maxB, "returns")

\* getBlockData(currentBlock) settles; the rest of the loop body runs, then
\* either the next getBlockData is called or the code after the loop runs.
GetBlockDataSettles ==
    /\ pc = "fetching"
    /\ \E outcome \in Outcomes(chainstackUrl) :
         \E step \in {ProcessBlock(
                         PassState(result, rValueMap, addressSet, extracted),
                         outcome, callback,
                         currentBlock - blockRange[1] + 1,
                         TotalBlocks(blockRange, maxBlocks))} :
             /\ rValueMap' = step.st.rValueMap
             /\ addressSet' = step.st.addressSet
             /\ extracted' = step.st.extracted
             /\ progressLog' = progressLog \o step.calls
             /\ settledLog' = Append(settledLog, [height |-> currentBlock,
                                                  kind |-> outcome.kind,
                                                  txs |-> outcome.txs])
             /\ currentBlock' = currentBlock + 1
             /\ IF currentBlock + 1 <= ActualEndBlock(blockRange, maxBlocks)
                THEN /\ fetchLog' = Append(fetchLog, currentBlock + 1)
                     /\ result' = step.st.result
                     /\ pc' = "fetching"
                ELSE /\ fetchLog' = fetchLog
                     /\ result' = FinishPass(step.st)
                     /\ pc' = "done"
    /\ UNCHANGED <<engineVars, derVars, chainstackUrl, callback, blockRange,
                   maxBlocks, toast, cancelRequested, sideVars>>

\* The caller decides, while a pass is waiting for a block, that the pass
\* should stop.  analyzeBlockchainSignatures takes blockRange, maxBlocks and
\* progressCallback and reads no flag or token: the decision changes nothing
\* the pass reads.
RequestCancel ==
    /\ pc = "fetching"
    /\ ~cancelRequested
    /\ cancelRequested' = TRUE
    /\ UNCHANGED <<pc, engineVars, derVars, chainstackUrl, callback, blockRange,
                   maxBlocks, currentBlock, result, rValueMap, addressSet,
                   extracted, fetchLog, settledLog, progressLog, toast, sideVars>>

Next ==
    \/ AnalyzeBlockchainSignatures
    \/ HandleStartAnalysis
    \/ GetBlockDataSettles
    \/ RequestCancel

Spec == Init /\ [][Next]_vars

(***************************************************************************)
(* Two passes in flight at once                                            *)
(***************************************************************************)

\* Largest endBlock of a pass that runs next to another one.
MaxConcurrentEnd == 2

\* What the node delivers to such a pass: nothing, or one of two blocks.
ConcurrentOutcomes(url) ==
    {o \in Outcomes(url) :
        o.kind = "block" =>
            o.txs \in {<<TxA1, TxB1, TxA2, TxC, TxB2>>, <<TxWitness, TxNoSignature, TxA1>>}}

\* Locals that share the index of the first pass.
LocalsOfFirst(ps, p) == [ps[p].st EXCEPT !.rValueMap = ps[1].st.rValueMap]

\* result, signatures, rValueMap and addressSet are declared inside
\* analyzeBlockchainSignatures: each call has its own.
LocalsOf(ps, p) == ps[p].st

InitConcurrent ==
    /\ pc = "idle"
    /\ EngineIdle
    /\ DerIdle
    /\ chainstackUrl = TRUE
    /\ PassLocalsIdle
    /\ passes \in [PassIds -> {NoPass(url) : url \in BOOLEAN}]
    /\ inverseCall = NoInverseCall
    /\ extractCall = NoExtractCall
    /\ dashboard = NoDashboard

\* Call p of analyzeBlockchainSignatures is made, with a progress callback
\* as the page passes one, and runs to its first await (the range is not
\* empty).
ConcurrentStart(p) ==
    /\ passes[p].pc = "idle"
    /\ \E endBlock \in 1..MaxConcurrentEnd :
         passes' = [passes EXCEPT ![p] =
                       [@ EXCEPT !.pc = "fetching", !.callback = "returns",
                                 !.blockRange = <<1, endBlock>>,
                                 !.maxBlocks = MaxConcurrentEnd + 1,
                                 !.currentBlock = 1]]
    /\ UNCHANGED <<pc, engineVars, derVars, chainstackUrl, callback, blockRange,
                   maxBlocks, currentBlock, result, rValueMap, addressSet,
                   extracted, fetchLog, settledLog, progressLog, toast,
                   cancelRequested, inverseCall, extractCall, dashboard>>

\* The pending getBlockData of call p settles and call p runs on to its
\* next await or to its return.  `overlapped' notes that a block was
\* delivered to call p while the other call was waiting for one.
ConcurrentSettle(p) ==
    /\ passes[p].pc = "fetching"
    /\ \E outcome \in ConcurrentOutcomes(passes[p].url) :
         \E step \in {ProcessBlock(
                         LocalsOf(passes, p), outcome, passes[p].callback,
                         passes[p].currentBlock - passes[p].blockRange[1] + 1,
                         TotalBlocks(passes[p].blockRange, passes[p].maxBlocks))} :
            LET last == passes[p].currentBlock + 1
                            > ActualEndBlock(passes[p].blockRange, passes[p].maxBlocks)
            IN  passes' = [passes EXCEPT ![p] =
                   [@ EXCEPT !.st = step.st,
                             !.calls = @ \o step.calls,
                             !.delivered = Append(@, outcome),
                             !.overlapped =
                                 @ \/ \E q \in PassIds \ {p} : passes[q].pc = "fetching",
                             !.currentBlock = @ + 1,
                             !.pc = IF last THEN "done" ELSE "fetching",
                             !.result = IF last THEN FinishPass(step.st)
                                        ELSE step.st.result]]
    /\ UNCHANGED <<pc, engineVars, derVars, chainstackUrl, callback, blockRange,
                   maxBlocks, currentBlock, result, rValueMap, addressSet,
                   extracted, fetchLog, settledLog, progressLog, toast,
                   cancelRequested, inverseCall, extractCall, dashboard>>

NextConcurrent == \E p \in PassIds : ConcurrentStart(p) \/ ConcurrentSettle(p)

SpecConcurrent == InitConcurrent /\ [][NextConcurrent]_vars

RECURSIVE AloneLoop(_, _, _)
\* The locals and callback calls of a pass that runs by itself and is
\* delivered the outcomes ds[i], ds[i + 1], ...
AloneLoop(acc, pass, i) ==
    IF i > Len(pass.delivered) THEN acc
    ELSE CHOOSE out \in
           {AloneLoop(next, pass, i + 1) :
              next \in {LET step == ProcessBlock(acc.st, pass.delivered[i],
                                                pass.callback, i,
                                                TotalBlocks(pass.blockRange,
                                                            pass.maxBlocks))
                        IN  [st |-> step.st, calls |-> acc.calls \o step.calls]}} :
           TRUE

\* What call p returns, and the calls it makes to its callback, when it runs
\* alone and the provider delivers to it what it delivered to call p.
RunAlone(pass) ==
    LET end == AloneLoop([st |-> NoPass(pass.url).st, calls |-> <<>>], pass, 1)
    IN  [result |-> FinishPass(end.st), calls |-> end.calls]

\* C19: pass isolation.  Each of two calls whose provider fetches interleave
\* in any order returns the result, and has made the callback calls, of a
\* run by itself over the same deliveries; its records come from its own
\* blocks only.
C19_PassIsolation ==
    \A p \in PassIds :
        passes[p].pc = "done" =>
            /\ passes[p].result = RunAlone(passes[p]).result
            /\ passes[p].calls = RunAlone(passes[p]).calls

\* Both calls have returned, each after two blocks, at least one of which
\* was delivered while the other call was waiting for a block; both found
\* records, and the results differ.
C19_Witness ==
    /\ \A p \in PassIds :
          /\ passes[p].pc = "done"
          /\ Len(passes[p].delivered) = 2
          /\ passes[p].overlapped
          /\ passes[p].result.signaturesExtracted > 0
    /\ passes[1].result # passes[2].result
    /\ passes[1].result.potentialVulnerabilities # <<>>

(***************************************************************************)
(* modInverse by itself                                                    *)
(***************************************************************************)

\* Largest modulus and largest absolute value of an argument tried.
MaxModulus == 23
MaxInverseArg == 30

\* The prime moduli tried; the order of the curve is one of them.
IsPrime(m) == m >= 2 /\ \A d \in 2..(m - 1) : m % d # 0
Moduli == {m \in 2..MaxModulus : IsPrime(m)} \cup {CURVE_ORDER}

InitInverse ==
    /\ pc = "idle"
    /\ EngineIdle
    /\ DerIdle
    /\ chainstackUrl = TRUE
    /\ PassLocalsIdle
    /\ passes = [p \in PassIds |-> NoPass(TRUE)]
    /\ extractCall = NoExtractCall
    /\ dashboard = NoDashboard
    /\ \E x \in (-MaxInverseArg)..MaxInverseArg, m \in Moduli :
         inverseCall = [a |-> x, m |-> m, result |-> <<>>, threw |-> FALSE]

\* modInverse(a, m) runs and returns: the function has no throw statement
\* and its only division is guarded by the loop condition r !== 0n.
CallModInverse ==
    /\ pc = "idle"
    /\ inverseCall' = [inverseCall EXCEPT !.result = <<modInverse(inverseCall.a,
                                                                inverseCall.m)>>]
    /\ pc' = "returned"
    /\ UNCHANGED <<engineVars, derVars, chainstackUrl, callback, blockRange,
                   maxBlocks, currentBlock, result, rValueMap, addressSet,
                   extracted, fetchLog, settledLog, progressLog, toast,
                   cancelRequested, passes, extractCall, dashboard>>

NextInverse == CallModInverse

SpecInverse == InitInverse /\ [][NextInverse]_vars

\* C20: modular inverse correctness.  For a prime modulus n and every a with
\* 1 <= a < n, modInverse(a, n) returns r with 0 <= r < n and
\* a * r = 1 (mod n).
C20_InverseCorrect ==
    (/\ inverseCall.result # <<>>
     /\ 1 <= inverseCall.a
     /\ inverseCall.a < inverseCall.m)
    => /\ inverseCall.result[1] \in 0..(inverseCall.m - 1)
       /\ (inverseCall.a * inverseCall.result[1]) % inverseCall.m = 1

\* modInverse returned for the order of the curve and an argument in [2, n)
\* for which the loop ended on a negative coefficient.
C20_Witness ==
    /\ inverseCall.result # <<>>
    /\ inverseCall.m = CURVE_ORDER
    /\ inverseCall.a \in 2..(CURVE_ORDER - 1)
    /\ ModInverseLoop(inverseCall.a, inverseCall.m, 1, 0) < 0

\* C21: modular inverse of a non-invertible argument.  When gcd(a, n) is not
\* 1, in particular for a = 0 (mod n), modInverse signals an error and does
\* not return a number.
C21_NonInvertibleSignalsError ==
    (/\ pc = "returned"
     /\ inverseCall.m > 0
     /\ inverseCall.a % inverseCall.m = 0)
    => /\ inverseCall.threw
       /\ inverseCall.result = <<>>

(***************************************************************************)
(* The extractor by itself                                                 *)
(***************************************************************************)

\* 30 len 02 rLen <r> 02 sLen <s> with r on rLen bytes and s on sLen bytes
\* (leading zero bytes when the integer is shorter).
DerBytesOf(r, rLen, s, sLen) ==
    <<SEQUENCE_TAG, rLen + sLen + 4, INTEGER_TAG, rLen>> \o ToBytes(r, rLen)
    \o <<INTEGER_TAG, sLen>> \o ToBytes(s, sLen)

\* An unlocking script: the push of the signature and its sighash byte.
PushScript(r, rLen, s, sLen) ==
    ToHex(<<rLen + sLen + 7>> \o DerBytesOf(r, rLen, s, sLen) \o <<1>>)

\* A witness item: the signature and its sighash byte.
WitnessItem(r, rLen, s, sLen) == ToHex(DerBytesOf(r, rLen, s, sLen) \o <<1>>)

\* The lengths an integer of a signature is encoded on: from one byte to one
\* byte more than the order needs (33 bytes in the source's scale).
IntegerLengths == 1..(IntLen + 1)

\* The well-formed signatures (r, rLen, s, sLen): r and s in [1, n), each
\* encoded on a length that holds it.
WellFormedSignatures ==
    {sg \in [r : 1..(CURVE_ORDER - 1), rLen : IntegerLengths,
             s : 1..(CURVE_ORDER - 1), sLen : IntegerLengths] :
        /\ sg.r < Power(ByteBase, sg.rLen)
        /\ sg.s < Power(ByteBase, sg.sLen)}

\* Scripts and witness items of the transactions tried: without a signature,
\* with a signature, with a signature on few bytes.
ScriptChoices == {<<>>, <<PlainScript>>, <<PushScript(5, 2, 3, 2)>>}
ItemChoices ==
    {PlainScript, WitnessItem(6, 2, 5, 2), WitnessItem(7, 1, 2, 1),
     ToHex(<<SEQUENCE_TAG, 1, 1, 1, 1, 1, 1, 1, 1, 1, 1>>)}
WitnessChoices ==
    {<<>>} \cup {<<<<w>>>> : w \in ItemChoices}
    \cup {<< <<w1, w2>> >> : w1 \in ItemChoices, w2 \in ItemChoices}
InputChoices == {Input(sc, ws) : sc \in ScriptChoices, ws \in WitnessChoices}

\* Script-based transactions of one or two inputs.
ScriptTransactions ==
    {BtcTx(<<i1>>, Txid1) : i1 \in InputChoices}
    \cup {BtcTx(<<i1, i2>>, Txid2) : i1 \in InputChoices, i2 \in InputChoices}

InitExtract ==
    /\ pc = "idle"
    /\ EngineIdle
    /\ DerIdle
    /\ chainstackUrl = TRUE
    /\ PassLocalsIdle
    /\ passes = [p \in PassIds |-> NoPass(TRUE)]
    /\ inverseCall = NoInverseCall
    /\ dashboard = NoDashboard
    /\ \/ \E tx \in ScriptTransactions :
            extractCall = [kind |-> "transaction", tx |-> <<tx>>,
                           script |-> <<>>, result |-> <<>>]
       \/ \E sg \in WellFormedSignatures :
            extractCall = [kind |-> "script", tx |-> <<sg>>,
                           script |-> PushScript(sg.r, sg.rLen, sg.s, sg.sLen),
                           result |-> <<>>]

\* extractSignatureFromTransaction(tx) runs and returns.
CallExtractTransaction ==
    /\ pc = "idle"
    /\ extractCall.kind = "transaction"
    /\ extractCall' =
         [extractCall EXCEPT
            !.result = <<extractSignatureFromTransaction(extractCall.tx[1])>>]
    /\ pc' = "returned"
    /\ UNCHANGED <<engineVars, derVars, chainstackUrl, callback, blockRange,
                   maxBlocks, currentBlock, result, rValueMap, addressSet,
                   extracted, fetchLog, settledLog, progressLog, toast,
                   cancelRequested, passes, inverseCall, dashboard>>

\* extractBitcoinSignature(scriptHex, txid) runs and returns.
CallExtractScript ==
    /\ pc = "idle"
    /\ extractCall.kind = "script"
    /\ extractCall' =
         [extractCall EXCEPT
            !.result = <<[threw |-> FALSE,
                          value |-> extractBitcoinSignature(extractCall.script,
                                                            Txid1)]>>]
    /\ pc' = "returned"
    /\ UNCHANGED <<engineVars, derVars, chainstackUrl, callback, blockRange,
                   maxBlocks, currentBlock, result, rValueMap, addressSet,
                   extracted, fetchLog, settledLog, progressLog, toast,
                   cancelRequested, passes, inverseCall, dashboard>>

NextExtract == CallExtractTransaction \/ CallExtractScript

SpecExtract == InitExtract /\ [][NextExtract]_vars

RECURSIVE EveryCandidate(_)
\* The candidates of a transaction in the order of inspection: inputs in list
\* order, of each input the unlocking script, then the witness items in
\* stack order.
EveryCandidate(vin) ==
    IF vin = <<>> THEN <<>>
    ELSE Head(vin).scriptSig
         \o (IF Head(vin).txinwitness = <<>> THEN <<>>
             ELSE Head(vin).txinwitness[1])
         \o EveryCandidate(Tail(vin))

\* Whether a candidate decodes by itself.
Decodes(candidate) == extractBitcoinSignature(candidate, Txid1) # <<>>

\* C24: first match wins.  For a script-based transaction the extractor
\* returns the record decoded from the first candidate, in the order of
\* inspection, that decodes successfully, and null when none decodes.
C24_FirstMatchWins ==
    (pc = "returned" /\ extractCall.kind = "transaction")
    => LET tx == extractCall.tx[1]
           candidates == EveryCandidate(tx.vin[1])
           decoding == {i \in 1..Len(candidates) : Decodes(candidates[i])}
           first == CHOOSE i \in decoding : \A j \in decoding : i <= j
       IN  extractCall.result[1].value
             = IF decoding = {} THEN <<>>
               ELSE extractBitcoinSignature(candidates[first], tx.txid)

\* C27: script extraction fidelity.  For an unlocking script that pushes a
\* well-formed signature of any legal length and its sighash byte, the
\* script extractor returns a record with the r and s that were encoded.
C27_ScriptFidelity ==
    (pc = "returned" /\ extractCall.kind = "script")
    => /\ extractCall.result[1].value # <<>>
       /\ extractCall.result[1].value[1].r = extractCall.tx[1].r
       /\ extractCall.result[1].value[1].s = extractCall.tx[1].s

(***************************************************************************)
(* The dashboard: AdvancedAttackPanel and handleAttackStart of Index       *)
(***************************************************************************)

\* Largest number of attacks started from the panel.
MaxAttacks == 2

\* The panel's quick presets (a, b).
predefinedAffineParams ==
    {<<2, 1>>, <<3, 5>>, <<7, 0>>, <<-1, 1>>, <<5, -3>>, <<11, 13>>}

\* What parseInt(e.target.value) yields for the text typed into a parameter
\* field: <<>> for NaN (an empty field), else the number.
TypedValues == {<<>>, <<0>>, <<4>>}

\* The types of attack the panel's four buttons start.
AttackTypes == {"affine", "fault_injection", "automated_test", "raw_analysis"}

\* The values generateRandomBigInt returns to an attack started here.
DashboardDraws == {0, 1}

\* x || d for a number x, NaN being <<>>.
OrDefault(x, d) == IF x = <<>> \/ x = <<0>> THEN d ELSE x[1]

InitDashboard ==
    /\ pc = "idle"
    /\ EngineIdle
    /\ DerIdle
    /\ chainstackUrl = TRUE
    /\ PassLocalsIdle
    /\ passes = [p \in PassIds |-> NoPass(TRUE)]
    /\ inverseCall = NoInverseCall
    /\ extractCall = NoExtractCall
    /\ dashboard = NoDashboard

\* The user picks a preset, types into the field of a or of b, or pastes
\* signature data into the raw analysis tab.
EditPanel ==
    /\ pc = "idle"
    /\ \/ \E preset \in predefinedAffineParams :
            dashboard' = [dashboard EXCEPT
                            !.affineConfig = [a |-> preset[1], b |-> preset[2]]]
       \/ \E typed \in TypedValues :
            dashboard' = [dashboard EXCEPT
                            !.affineConfig.a = OrDefault(typed, 2)]
       \/ \E typed \in TypedValues :
            dashboard' = [dashboard EXCEPT
                            !.affineConfig.b = OrDefault(typed, 1)]
       \/ dashboard' = [dashboard EXCEPT !.rawPasted = TRUE]
    /\ dashboard' # dashboard
    /\ UNCHANGED <<pc, engineVars, derVars, chainstackUrl, callback, blockRange,
                   maxBlocks, currentBlock, result, rValueMap, addressSet,
                   extracted, fetchLog, settledLog, progressLog, toast,
                   cancelRequested, passes, inverseCall, extractCall>>

\* A button of the panel is pressed (it is disabled while isRunning, and the
\* raw analysis button also while no data is pasted): the panel's handler
\* builds the AttackConfig and calls onAttackStart, and handleAttackStart
\* runs up to its try block.
StartAttack ==
    /\ pc = "idle"
    /\ ~dashboard.isAttackRunning
    /\ Len(dashboard.recoveryResults) < MaxAttacks
    /\ \E type \in AttackTypes :
         /\ type = "raw_analysis" => dashboard.rawPasted
         /\ dashboard' =
              [dashboard EXCEPT
                 !.isAttackRunning = TRUE,
                 !.attackProgress = 0,
                 !.config = <<[type |-> type,
                               affineParams |->
                                   IF type = "affine"
                                   THEN <<dashboard.affineConfig>> ELSE <<>>]>>]
    /\ pc' = "attacking"
    /\ UNCHANGED <<engineVars, derVars, chainstackUrl, callback, blockRange,
                   maxBlocks, currentBlock, result, rValueMap, addressSet,
                   extracted, fetchLog, settledLog, progressLog, toast,
                   cancelRequested, passes, inverseCall, extractCall>>

\* The RecoveryResult handleAttackStart builds for the table of results.
RecoveryResultOf(config, res, sigs, key) ==
    [success |-> res.success, attackMethod |-> config.type,
     signaturesUsed |-> Len(sigs),
     recoveredKey |-> IF res.recoveredPrivateKey # <<>>
                         /\ res.recoveredPrivateKey # <<0>>
                      THEN res.recoveredPrivateKey ELSE <<>>,
     originalKey |-> key, affineParams |-> config.affineParams,
     errorMessage |-> res.errorMessage,
     keyMatch |-> res.success /\ res.recoveredPrivateKey = <<key>>]

\* The try block of handleAttackStart.  Only the type 'affine' has a branch;
\* for the other types the block is empty and nothing is thrown.
AttackTryBlock ==
    /\ pc = "attacking"
    /\ LET config == dashboard.config[1]
       IN  IF config.type = "affine"
           THEN \E drawnKey \in DashboardDraws, k1 \in DashboardDraws :
                \E pa \in {OrDefault(<<config.affineParams[1].a>>, 2)},
                   pb \in {OrDefault(<<config.affineParams[1].b>>, 1)} :
                \E sigs \in {VulnerableSignatures(pa, pb, drawnKey, k1)} :
                \E res \in {recoverPrivateKey(sigs, pa, pb)} :
                      /\ a' = pa
                      /\ b' = pb
                      /\ givenKey' = <<>>
                      /\ privateKey' = drawnKey
                      /\ origin' = "fixture"
                      /\ signatures' = sigs
                      /\ attackResult' = <<res>>
                      /\ dashboard' =
                           [dashboard EXCEPT
                              !.attackProgress = 100,
                              !.isAttackRunning = FALSE,
                              !.recoveryResults =
                                  Append(@, RecoveryResultOf(config, res, sigs,
                                                             drawnKey))]
                      /\ pc' = "idle"
           ELSE /\ pc' = "settled"
                /\ UNCHANGED <<a, b, givenKey, privateKey, origin, signatures,
                               attackResult, dashboard>>
    /\ UNCHANGED <<recoveredKeys, derVars, chainstackUrl, callback, blockRange,
                   maxBlocks, currentBlock, result, rValueMap, addressSet,
                   extracted, fetchLog, settledLog, progressLog, toast,
                   cancelRequested, passes, inverseCall, extractCall>>

NextDashboard == EditPanel \/ StartAttack \/ AttackTryBlock

SpecDashboard == InitDashboard /\ [][NextDashboard]_vars

\* handleAttackStart runs to its end once it is called: the try block
\* follows the two state updates in the same run of the handler.
SpecDashboardLive == SpecDashboard /\ WF_vars(AttackTryBlock)

\* C29: attack handler liveness.  Every started attack, of any type,
\* eventually leaves the running state: isAttackRunning, true at the start,
\* becomes false again.
C29_AttackEventuallyEnds ==
    dashboard.isAttackRunning ~> ~dashboard.isAttackRunning

\* C30: affine parameter fidelity.  For an affine attack started from the
\* panel with (a, b), fixture generation and recovery use (a, b), and the
\* RecoveryResult recorded for display carries the (a, b) that were used.
C30_AffineParamsFidelity ==
    (/\ pc = "idle"
     /\ dashboard.recoveryResults # <<>>)
    => LET sent == dashboard.config[1].affineParams[1]
           shown == dashboard.recoveryResults[Len(dashboard.recoveryResults)]
       IN  /\ a = sent.a
           /\ b = sent.b
           /\ signatures[2].nonce[1]
                = Reduce(sent.a * signatures[1].nonce[1] + sent.b)
           /\ shown.affineParams = <<[a |-> a, b |-> b]>>

(***************************************************************************)
(* Claims about the records the program builds                             *)
(***************************************************************************)

\* C7: zero-component rejection.  No path that builds a SignatureData
\* produces one with r = 0 or s = 0; stated here for the fixture generator's
\* signing step: the records generateVulnerableSignatures returns have
\* non-zero r and s.
C7_NoZeroComponentRecord ==
    origin = "fixture" =>
        \A i \in 1..Len(signatures) : signatures[i].r # 0 /\ signatures[i].s # 0

\* C8: range invariant of stored records.  Every record in the r-value index
\* of a pass has 0 < r < n and 0 < s < n.
C8_StoredRecordsInRange ==
    \A i \in 1..Len(rValueMap) :
        \A j \in 1..Len(rValueMap[i].sigs) :
            LET sig == rValueMap[i].sigs[j]
            IN  /\ 0 < sig.r /\ sig.r < CURVE_ORDER
                /\ 0 < sig.s /\ sig.s < CURVE_ORDER

(***************************************************************************)
(* Claims about the index and the pass                                     *)
(***************************************************************************)

\* The r-values of the records inserted so far, in insertion order.
InsertedR == [i \in 1..Len(extracted) |-> extracted[i].r]

\* The positions at which a bucket was created, and those of them whose
\* bucket received a further record.
BucketCreations == {i \in 1..Len(extracted) : \A j \in 1..(i - 1) : InsertedR[j] # InsertedR[i]}
CollisionCreations ==
    {i \in BucketCreations : \E j \in (i + 1)..Len(extracted) : InsertedR[j] = InsertedR[i]}

\* The k-th smallest element of a set of numbers.
Nth(S, k) == CHOOSE i \in S : Cardinality({j \in S : j <= i}) = k

\* The records inserted with r-value r, in insertion order.
InsertedWith(r) == SelectSeq(extracted, LAMBDA sig : sig.r = r)

\* C12: index ordering.  The collisions reported at the end of a pass are
\* the r-values inserted at least twice, in the order in which their buckets
\* were created, each with its records in insertion order; and at any time
\* the index holds one bucket per inserted r-value, in creation order, with
\* the records in insertion order.
C12_IndexOrdering ==
    /\ Len(rValueMap) = Cardinality(BucketCreations)
    /\ \A k \in 1..Len(rValueMap) :
          LET r == InsertedR[Nth(BucketCreations, k)]
          IN  /\ StringToBigInt(rValueMap[k].key) = r
              /\ rValueMap[k].sigs = InsertedWith(r)
    /\ pc = "done" =>
          /\ Len(result.potentialVulnerabilities) = Cardinality(CollisionCreations)
          /\ \A k \in 1..Len(result.potentialVulnerabilities) :
                LET r == InsertedR[Nth(CollisionCreations, k)]
                    finding == result.potentialVulnerabilities[k]
                IN  /\ finding.rValue = r
                    /\ finding.signatures = InsertedWith(r)
                    /\ Len(finding.signatures) >= 2

\* A pass ended after inserts that begin X, Y, Y, X: the bucket of Y became
\* a collision first, the bucket of X was created first, and X is reported
\* first; a third r-value was inserted once and is not reported.
C12_Witness ==
    /\ pc = "done"
    /\ Len(extracted) >= 5
    /\ InsertedR[1] # InsertedR[2]
    /\ InsertedR[3] = InsertedR[2]
    /\ InsertedR[4] = InsertedR[1]
    /\ Len(result.potentialVulnerabilities) = 2
    /\ result.potentialVulnerabilities[1].rValue = InsertedR[1]
    /\ Cardinality(BucketCreations) > 2

\* The specification's scenario: inserting [A, B, A, C, B] reports [A, B].
C12_ScenarioWitness ==
    /\ pc = "done"
    /\ InsertedR = <<5, 6, 5, 8, 6>>
    /\ Len(result.potentialVulnerabilities) = 2

\* The last height of the clamped range, min(end, start + maxBlocks - 1).
LastHeight ==
    IF blockRange[2] <= blockRange[1] + maxBlocks - 1 THEN blockRange[2]
    ELSE blockRange[1] + maxBlocks - 1

\* The heights of the clamped range in increasing order.
RangeHeights == [i \in 1..(LastHeight - blockRange[1] + 1) |-> blockRange[1] + i - 1]

\* C13: block range and order.  The heights requested from the provider are
\* start, start + 1, ... in this order, each once and none beyond
\* min(end, start + maxBlocks - 1); a finished pass has requested all of
\* them; and a height is requested only when the loop iteration of every
\* earlier height has ended, so at most one request is outstanding.
C13_BlockRangeAndOrder ==
    pc \in {"fetching", "done"} =>
        /\ Len(fetchLog) <= Len(RangeHeights)
        /\ fetchLog = SubSeq(RangeHeights, 1, Len(fetchLog))
        /\ pc = "done" => fetchLog = RangeHeights
        /\ \A i \in 1..Len(settledLog) : settledLog[i].height = fetchLog[i]
        /\ pc = "fetching" => Len(fetchLog) = Len(settledLog) + 1
        /\ pc = "done" => Len(fetchLog) = Len(settledLog)

\* A pass over a range that maxBlocks cut short ended after more than one
\* block.
C13_Witness ==
    /\ pc = "done"
    /\ blockRange[1] + maxBlocks - 1 < blockRange[2]
    /\ Len(fetchLog) >= 2
    /\ rValueMap # <<>>

\* The kinds of outcome of the loop iterations that have ended.
SettledKinds == [i \in 1..Len(settledLog) |-> settledLog[i].kind]

\* The loop iteration that ends in this step is one whose provider call
\* failed: it returned nothing or it threw.
ProviderFailureStep ==
    /\ pc = "fetching"
    /\ Len(settledLog') = Len(settledLog) + 1
    /\ settledLog'[Len(settledLog')].kind \in {"null", "throws"}

\* What the pass keeps of the blocks consumed so far, less the two counters
\* the end of the pass derives from it.
Accumulated(res) ==
    <<res.transactionsProcessed, res.signaturesExtracted>>

\* C14: provider failure is never fatal.  A loop iteration whose provider
\* call returned nothing or threw adds exactly one to the error counter,
\* leaves blocksAnalyzed, the index, the records and the addresses as they
\* were, and is followed by the request of the next height of the range, or
\* by the end of the pass when it was the last one.
C14_ProviderFailureNotFatal ==
    [][ProviderFailureStep =>
          /\ result'.errorCount = result.errorCount + 1
          /\ result'.blocksAnalyzed = result.blocksAnalyzed
          /\ Accumulated(result') = Accumulated(result)
          /\ rValueMap' = rValueMap
          /\ extracted' = extracted
          /\ addressSet' = addressSet
          /\ IF currentBlock < LastHeight
             THEN pc' = "fetching" /\ fetchLog' = Append(fetchLog, currentBlock + 1)
             ELSE pc' = "done" /\ fetchLog' = fetchLog]_vars

\* A pass ended whose second block failed: the records of the first and of
\* the third block are together in one finding of the result.
C14_Witness ==
    /\ pc = "done"
    /\ SettledKinds = <<"block", "null", "block">>
    /\ result.errorCount = 1
    /\ result.blocksAnalyzed = 2
    /\ Len(extracted) = 2
    /\ Len(result.potentialVulnerabilities) = 1
    /\ result.potentialVulnerabilities[1].signatures = extracted

\* C15: progress reporting.  With a progress callback, the callback has been
\* invoked once for each loop iteration that has ended, whether or not the
\* fetch of that block succeeded: the i-th call reports blocks_done = i and
\* blocks_total = the size of the clamped range, so progress increases
\* strictly and the last call of a finished pass reports
\* blocks_done = blocks_total.
C15_ProgressAfterEachBlock ==
    (pc \in {"fetching", "done"} /\ callback # "none") =>
        /\ Len(progressLog) = Len(settledLog)
        /\ \A i \in 1..Len(progressLog) :
              /\ progressLog[i].current = i
              /\ progressLog[i].total = Len(RangeHeights)
        /\ (pc = "done" /\ RangeHeights # <<>>) =>
              /\ progressLog # <<>>
              /\ progressLog[Len(progressLog)].current = Len(RangeHeights)

\* C16: invalid range rejection.  A call with a block range whose start is
\* greater than its end fetches no block, reports no progress and does not
\* return a ChainAnalysisResult.
C16_InvalidRangeRejected ==
    (pc # "idle" /\ blockRange[1] > blockRange[2]) =>
        /\ fetchLog = <<>>
        /\ progressLog = <<>>
        /\ pc # "done"

\* C17: cancellation.  Once the caller has asked a running pass to stop, no
\* further block is requested from the provider and the pass does not end as
\* Completed (pc = "done"): it ends as Aborted with the partial result.
C17_CancellationStopsPass ==
    [][cancelRequested => (fetchLog' = fetchLog /\ pc' # "done")]_vars

\* The candidate key of the pair (i, j) of a bucket as the specification
\* computes it, and whether the pair can contribute.
BucketPairKey(sigs, i, j) ==
    LET k == Reduce((sigs[i].messageHash - sigs[j].messageHash)
                      * Inverse(Reduce(sigs[i].s - sigs[j].s)))
    IN  Reduce((sigs[i].s * k - sigs[i].messageHash) * Inverse(sigs[i].r))

BucketPairUsable(sigs, i, j) ==
    /\ i < j
    /\ Reduce(sigs[i].s - sigs[j].s) # 0
    /\ Invertible(sigs[i].r)

\* The keys identical-nonce recovery yields for a bucket: the non-zero
\* candidate keys of its usable pairs.
BucketKeys(sigs) ==
    {BucketPairKey(sigs, p[1], p[2]) :
        p \in {q \in (1..Len(sigs)) \X (1..Len(sigs)) : BucketPairUsable(sigs, q[1], q[2])}}
    \ {0}

\* The buckets of the index that hold at least two records, in index order.
CollisionBuckets == SelectSeq(rValueMap, LAMBDA e : Len(e.sigs) >= 2)

\* C18: findings at completion.  The result of a finished pass holds one
\* finding per index bucket with at least two records and none for the
\* others, in index order; a finding carries the bucket's r-value and its
\* records in insertion order, its recovered keys are, without repetition,
\* the keys identical-nonce recovery yields for exactly these records, and
\* rValueReuseCount is the number of findings.
C18_FindingsAtCompletion ==
    pc = "done" =>
        LET findings == result.potentialVulnerabilities
        IN  /\ Len(findings) = Len(CollisionBuckets)
            /\ result.rValueReuseCount = Len(findings)
            /\ \A k \in 1..Len(findings) :
                  LET keys == findings[k].recoveredPrivateKeys
                  IN  /\ BigIntToString(findings[k].rValue) = CollisionBuckets[k].key
                      /\ findings[k].signatures = CollisionBuckets[k].sigs
                      /\ Range(keys) = BucketKeys(CollisionBuckets[k].sigs)
                      /\ Cardinality(Range(keys)) = Len(keys)

\* A pass ended whose index begins with a bucket of one record, followed by
\* two buckets that are reported, one of them with three records and one
\* with a recovered key.
C18_Witness ==
    /\ pc = "done"
    /\ Len(rValueMap) >= 3
    /\ Len(rValueMap[1].sigs) = 1
    /\ \E k \in 1..Len(rValueMap) : Len(rValueMap[k].sigs) >= 3
    /\ Len(result.potentialVulnerabilities) = 2
    /\ \E k \in 1..2 : result.potentialVulnerabilities[k].recoveredPrivateKeys # <<>>


\* A loop iteration ends in this step with a block whose transactions list
\* was delivered.
BlockStep ==
    /\ Len(settledLog') = Len(settledLog) + 1
    /\ settledLog'[Len(settledLog')].kind = "block"

\* A transaction whose extraction meets an exception inside the extractor.
Malformed(tx) == ExtractBody(tx).threw

RECURSIVE RecordsOf(_)
\* The records of the transactions of a list, each extracted by itself.
RecordsOf(txs) ==
    IF txs = <<>> THEN <<>>
    ELSE extractSignatureFromTransaction(Head(txs)).value \o RecordsOf(Tail(txs))

\* C23: the extractor never throws.  For every transaction shape it returns
\* a record or null; in a pass each transaction of a delivered block is
\* counted in transactionsProcessed, the records of the transactions around
\* a malformed one are all stored, the block counts as analyzed, no error is
\* counted for it (a throwing progress callback apart) and the next height
\* of the range is fetched.
C23_MalformedTransactionHarmless ==
    [][BlockStep =>
        LET txs == settledLog'[Len(settledLog')].txs
        IN  /\ \A i \in 1..Len(txs) :
                  LET call == extractSignatureFromTransaction(txs[i])
                  IN  ~call.threw /\ Len(call.value) <= 1
            /\ result'.transactionsProcessed
                 = result.transactionsProcessed + Len(txs)
            /\ extracted' = extracted \o RecordsOf(txs)
            /\ result'.signaturesExtracted = Len(extracted')
            /\ result'.blocksAnalyzed = result.blocksAnalyzed + 1
            /\ result'.errorCount
                 = result.errorCount + (IF callback = "throws" THEN 1 ELSE 0)
            /\ currentBlock < ActualEndBlock(blockRange, maxBlocks)
                 => fetchLog' = Append(fetchLog, currentBlock + 1)]_vars

\* A block with malformed transactions (one of them null or with a null
\* input or an unparsable number) followed by a well-formed one was
\* processed, the record of the well-formed one is stored, and a later block
\* with a record of its own was processed after it.
C23_Witness ==
    \E i \in 1..Len(settledLog) :
        LET txs == settledLog[i].txs
        IN  /\ settledLog[i].kind = "block"
            /\ \E j \in 1..Len(txs), k \in 1..Len(txs) :
                  /\ j < k
                  /\ Malformed(txs[j])
                  /\ extractSignatureFromTransaction(txs[k]).value # <<>>
                  /\ \E e \in 1..Len(extracted) :
                        extracted[e]
                          = extractSignatureFromTransaction(txs[k]).value[1]
            /\ i < Len(settledLog)
            /\ settledLog[i + 1].kind = "block"
            /\ RecordsOf(settledLog[i + 1].txs) # <<>>
            /\ extracted[Len(extracted)]
                 = RecordsOf(settledLog[i + 1].txs)[Len(RecordsOf(settledLog[i + 1].txs))]


RECURSIVE SumOfBucketLengths(_)
\* The number of records the index holds.
SumOfBucketLengths(map) ==
    IF map = <<>> THEN 0
    ELSE Len(Head(map).sigs) + SumOfBucketLengths(Tail(map))

\* signaturesExtracted counts the records of the index and does not exceed
\* transactionsProcessed.
CountersAgree ==
    /\ result.signaturesExtracted = SumOfBucketLengths(rValueMap)
    /\ result.signaturesExtracted <= result.transactionsProcessed

\* The counters and the buckets after a step of a pass are not below what
\* they were before it.
CountersGrow ==
    /\ result'.blocksAnalyzed >= result.blocksAnalyzed
    /\ result'.transactionsProcessed >= result.transactionsProcessed
    /\ result'.signaturesExtracted >= result.signaturesExtracted
    /\ result'.errorCount >= result.errorCount
    /\ \A i \in 1..Len(rValueMap) :
          \E j \in 1..Len(rValueMap') :
              /\ rValueMap'[j].key = rValueMap[i].key
              /\ Len(rValueMap'[j].sigs) >= Len(rValueMap[i].sigs)

\* A transaction with more than one input that carries a signature.
SeveralSignatures(tx) ==
    /\ ~tx.isNull
    /\ tx.vin # <<>>
    /\ Cardinality({i \in 1..Len(tx.vin[1]) :
                      /\ ~tx.vin[1][i].isNull
                      /\ tx.vin[1][i].scriptSig # <<>>
                      /\ Decodes(tx.vin[1][i].scriptSig[1])}) > 1

\* C25: counter invariant.  Along a pass signaturesExtracted equals the
\* number of records in the index and never exceeds transactionsProcessed;
\* a block adds at most one record per transaction; the counters and the
\* bucket lengths only grow.
C25_CounterInvariant ==
    [][/\ CountersAgree'
       /\ pc = "fetching" => CountersGrow
       /\ BlockStep =>
            result'.signaturesExtracted - result.signaturesExtracted
              <= Len(settledLog'[Len(settledLog')].txs)]_vars

\* A pass over at least two blocks processed a transaction with two inputs
\* that each carry a signature, holds a bucket of two records, and extracted
\* fewer records than it processed transactions.
C25_Witness ==
    /\ Len(settledLog) >= 2
    /\ \E i \in 1..Len(settledLog) :
          \E k \in 1..Len(settledLog[i].txs) :
              SeveralSignatures(settledLog[i].txs[k])
    /\ \E i \in 1..Len(rValueMap) : Len(rValueMap[i].sigs) >= 2
    /\ result.signaturesExtracted > 2
    /\ result.signaturesExtracted < result.transactionsProcessed


\* C28: block accounting.  When a pass ends, blocksAnalyzed + errorCount is
\* the number of heights of the clamped range: every height is counted once,
\* as analyzed or as an error, whatever the provider delivered and whatever
\* the progress callback did.
C28_BlockAccounting ==
    pc = "done"
    => LET last == Min(blockRange[2], blockRange[1] + maxBlocks - 1)
           heights == IF last >= blockRange[1] THEN last - blockRange[1] + 1
                      ELSE 0
       IN  result.blocksAnalyzed + result.errorCount = heights

=============================================================================
